---------------------------- MODULE Spec2Model ----------------------------
(***************************************************************************)
(* Model of the elfatih backend: the posts / post_feedbacks /              *)
(* post_sections tables and the request handlers of api/posts.py that act  *)
(* on them through crud/post.py (PostCRUD).                                *)
(*                                                                         *)
(* Spec      : the handlers run one request at a time.                     *)
(* SpecConc  : the requests on one post, where an add_feedback or          *)
(*             remove_feedback request may stay open between its reads and *)
(*             its commit while other requests are served.                 *)
(* SpecComplete : complete-post requests (a post and its sections from a  *)
(*             manifest) and post deletion.                                *)
(* SpecCascade : posts that get sections and feedback one request at a     *)
(*             time, and post deletion.                                    *)
(*                                                                         *)
(* The users and devices tables, the bearer tokens and the handlers of     *)
(* api/auth.py, api/users.py, api/admin.py and api/devices.py:             *)
(*                                                                         *)
(* SpecRoles : profile updates, role and activation changes, deletes.      *)
(* SpecAccounts : registrations and profile updates with usernames,        *)
(*             emails and phones.                                          *)
(* SpecRace  : registrations that overlap between lookups and INSERT.      *)
(* SpecAdmin : the admin-only endpoints, called with and without an ADMIN  *)
(*             token.                                                      *)
(* SpecTokens : login, refresh and expiry against role changes.            *)
(* SpecListing : GET /users/.                                              *)
(* SpecPublic : registrations and the role-changing endpoints, from an     *)
(*             empty users table.                                          *)
(* SpecDevices : the device registry: creates, updates, images, QR codes,  *)
(*             activation and deletes.                                     *)
(* SpecFeedback : feedback of two users, one request at a time.            *)
(* SpecSections : section creation, complete posts, reorder and delete.    *)
(* SpecResize : resize_image_if_needed of utils/image_utils.py on images   *)
(*             of given width and height.                                  *)
(***************************************************************************)
EXTENDS Integers, Sequences, FiniteSets, TLC

\* ---- bounds of the model ------------------------------------------------
MaxPostId == 2
NumUsers == 1
MaxFeedbackId == 2
MaxCount == 2
MaxSectionId == 3
MaxManifest == 2
MaxUserId == 2
MaxRegs == 2
MaxDeviceId == 2

PostIds == 1..MaxPostId
Users == 1..NumUsers
UserIds == 1..MaxUserId

\* the registrations that can be in flight together
Regs == 1..MaxRegs
\* SpecConc follows the requests on the first post
ConcPostIds == {1}

\* models.post.FeedbackType
FeedbackType == {"positive", "negative"}

\* a column that holds no value
NULL == "NULL"

VARIABLES
    posts,            \* table posts: id -> row
    nextPostId,       \* autoincrement of posts.id
    post_feedbacks,   \* table post_feedbacks: set of rows
    nextFeedbackId,   \* autoincrement of post_feedbacks.id
    post_sections,    \* table post_sections: set of rows
    nextSectionId,    \* autoincrement of post_sections.id
    resp,             \* what the most recent section / complete-post request returned
    txn,              \* the add/remove_feedback transaction that is open
                      \* while other requests are served
    last,             \* the most recent completed request and what it saw
    users,            \* table users: id -> row
    nextUserId,       \* autoincrement of users.id
    tokens,           \* the bearer token each client holds
    req,              \* the answer to the request, when it is a users / auth /
                      \* devices request
    reg,              \* the registrations between their checks and their INSERT
                      \* and its insert while other requests are served
    devices,          \* table devices: id -> row
    nextDeviceId,     \* autoincrement of devices.id
    resized           \* the image resize_image_if_needed was last called
                      \* with, and what it made of it

secvars == <<post_sections, nextSectionId, resp>>
contentvars == <<posts, nextPostId, post_feedbacks, nextFeedbackId,
                 post_sections, nextSectionId, resp, txn, last, resized>>
tablevars == <<posts, nextPostId, post_feedbacks, nextFeedbackId,
               post_sections, nextSectionId, resp, txn, last>>
vars == <<posts, nextPostId, post_feedbacks, nextFeedbackId, post_sections,
          nextSectionId, resp, txn, last, users, nextUserId, tokens, req, reg,
          devices, nextDeviceId, resized>>

\* ---- helpers ------------------------------------------------------------
NoRow == [id |-> 0, post_id |-> 0, user_id |-> 0, feedback_type |-> "none"]

NoRequest ==
    [op |-> "none", post_id |-> 0, user_id |-> 0, feedback_type |-> "none",
     ok |-> FALSE, existing |-> "none", pos0 |-> 0, neg0 |-> 0,
     atomic |-> TRUE, repeat |-> FALSE]

Idle ==
    [pc |-> "idle", op |-> "none", post_id |-> 0, user_id |-> 0,
     feedback_type |-> "none", existing |-> NoRow,
     snap |-> [positive_feedbacks |-> 0, negative_feedbacks |-> 0, is_active |-> TRUE]]

NoResponse ==
    [status |-> "none", post_id |-> 0, manifest |-> <<>>, images |-> {},
     sections |-> <<>>, first_id |-> 0]

\* max(0, x)
Max0(x) == IF x > 0 THEN x ELSE 0

\* Post(positive_feedbacks=0, negative_feedbacks=0, is_active=True)
NewPost == [positive_feedbacks |-> 0, negative_feedbacks |-> 0, is_active |-> TRUE]

\* query(PostFeedback).filter(post_id == p, user_id == u)
FeedbackRows(p, u) == {f \in post_feedbacks : f.post_id = p /\ f.user_id = u}

\* mutant: the lookup never finds the row
FirstFeedbackBlind(p, u) == {NoRow}

\* ....first(): one of the matching rows (no ORDER BY), or None
FirstFeedback(p, u) ==
    IF FeedbackRows(p, u) = {} THEN {NoRow} ELSE FeedbackRows(p, u)

\* mutant: the decrement without its floor
DecCounterNoFloor(post, ftype) ==
    IF ftype = "positive"
    THEN [post EXCEPT !.positive_feedbacks = @ - 1]
    ELSE [post EXCEPT !.negative_feedbacks = @ - 1]

\* post.<counter> = max(0, post.<counter> - 1)
DecCounter(post, ftype) ==
    IF ftype = "positive"
    THEN [post EXCEPT !.positive_feedbacks = Max0(@ - 1)]
    ELSE [post EXCEPT !.negative_feedbacks = Max0(@ - 1)]

\* mutant: a feedback counts for both types
IncCounterBoth(post, ftype) ==
    [post EXCEPT !.positive_feedbacks = @ + 1, !.negative_feedbacks = @ + 1]

\* post.<counter> += 1
IncCounter(post, ftype) ==
    IF ftype = "positive"
    THEN [post EXCEPT !.positive_feedbacks = @ + 1]
    ELSE [post EXCEPT !.negative_feedbacks = @ + 1]

\* mutant: the old type is never taken out
SwitchCountersNoDec(post, old, new) == IncCounter(post, new)

\* mutant: the new type is taken out instead of the old one
SwitchCountersDecNew(post, old, new) == IncCounter(DecCounter(post, new), new)

\* add_feedback, existing row: take the old type out, put the new type in
SwitchCounters(post, old, new) == IncCounter(DecCounter(post, old), new)

\* the unit of work writes back only the columns whose value changed since
\* the row was loaded
Flush(row, loaded, new) ==
    [row EXCEPT
       !.positive_feedbacks =
           IF new.positive_feedbacks # loaded.positive_feedbacks
           THEN new.positive_feedbacks ELSE @,
       !.negative_feedbacks =
           IF new.negative_feedbacks # loaded.negative_feedbacks
           THEN new.negative_feedbacks ELSE @]

\* a feedback request; repeat: it is the second of two identical submissions
\* in a row, the first of which found no row
Req(op, p, u, t, ok, ex, atomic) ==
    [op |-> op, post_id |-> p, user_id |-> u, feedback_type |-> t, ok |-> ok,
     existing |-> ex,
     pos0 |-> IF p \in DOMAIN posts THEN posts[p].positive_feedbacks ELSE 0,
     neg0 |-> IF p \in DOMAIN posts THEN posts[p].negative_feedbacks ELSE 0,
     atomic |-> atomic,
     repeat |-> /\ atomic /\ ok /\ op = "add_feedback"
                /\ last.op = "add_feedback" /\ last.ok /\ last.atomic
                /\ last.post_id = p /\ last.user_id = u
                /\ last.feedback_type = t /\ last.existing = "none"]

\* a request that is no feedback write
Plain(op, p, ok) ==
    [op |-> op, post_id |-> p, user_id |-> 0, feedback_type |-> "none", ok |-> ok,
     existing |-> "none", pos0 |-> 0, neg0 |-> 0, atomic |-> TRUE,
     repeat |-> FALSE]

\* last is the request just completed
Done(r) == last' = r

WithinCount(post) ==
    post.positive_feedbacks <= MaxCount /\ post.negative_feedbacks <= MaxCount

\* ---- users and tokens: values --------------------------------------------
\* models.user.UserType
UserType == {"USER", "ADMIN"}

\* a field the request body leaves out (exclude_unset)
Unset == "<unset>"

\* usernames, e-mail addresses and phone numbers that clients send
Usernames == {"admin", "testuser"}

Emails == {"admin@example.com", "testuser@example.com"}

PhoneInputs == {"+201001234567", "+20 100 123 4567"}

\* validate_phone: what is left of v without its other characters
validate_phone(v) ==
    CASE v = "+20 100 123 4567" -> "+201001234567"
      [] OTHER -> v

\* the admin account of the deployment
AdminAccount ==
    [username |-> "admin", email |-> "admin@example.com", phone |-> NULL,
     user_type |-> "ADMIN", is_active |-> TRUE]

\* no usable token: none was issued, or it expired, or it is garbled
NoToken ==
    [valid |-> FALSE, username |-> "", user_id |-> 0, user_type |-> "none",
     is_active |-> FALSE]

\* create_access_token(data={sub, user_id, user_type, is_active})
create_access_token(id, user) ==
    [valid |-> TRUE, username |-> user.username, user_id |-> id,
     user_type |-> user.user_type, is_active |-> user.is_active]

\* get_user_from_token: the claims, or None
get_user_from_token(token) == token.valid

NoCall ==
    [op |-> "none", caller |-> 0, target |-> 0, username |-> Unset,
     email |-> Unset, phone |-> Unset, user_type |-> Unset, status |-> 0,
     active_only |-> Unset, listed |-> {}]

\* resize_image_if_needed has not been called
NoImage == [width |-> 0, height |-> 0, status |-> 0, size |-> <<0, 0>>,
            format |-> NULL]
NoRegistration ==
    [pc |-> "idle", username |-> "", email |-> "", phone |-> NULL]

\* a request to api/posts.py: req, the answer of the last users or devices
\* request, is cleared, and users, tokens and devices stay as they are
NoAccountCall ==
    /\ req' = NoCall
    /\ UNCHANGED <<users, nextUserId, tokens, reg, devices, nextDeviceId,
                   resized>>

\* a request outside api/posts.py: last, the record of the last posts request,
\* is cleared, and the posts tables stay as they are
NoContentCall ==
    /\ last' = NoRequest
    /\ UNCHANGED <<posts, nextPostId, post_feedbacks, nextFeedbackId,
                   post_sections, nextSectionId, resp, txn, resized>>

\* ---- Init ---------------------------------------------------------------
Init ==
    /\ posts = <<>>
    /\ nextPostId = 1
    /\ post_feedbacks = {}
    /\ nextFeedbackId = 1
    /\ post_sections = {}
    /\ nextSectionId = 1
    /\ resp = NoResponse
    /\ txn = Idle
    /\ last = NoRequest
    /\ users = (1 :> AdminAccount)
    /\ nextUserId = 2
    /\ tokens = [c \in UserIds |-> NoToken]
    /\ req = NoCall
    /\ reg = [r \in Regs |-> NoRegistration]
    /\ devices = <<>>
    /\ nextDeviceId = 1
    /\ resized = NoImage

\* ---- posts --------------------------------------------------------------
\* POST /posts/, while the id is at most n
CreatePostUpTo(n) ==
    /\ nextPostId <= n
    /\ posts' = [i \in DOMAIN posts \cup {nextPostId} |->
                    IF i = nextPostId THEN NewPost ELSE posts[i]]
    /\ nextPostId' = nextPostId + 1
    /\ Done(Plain("create_post", nextPostId, TRUE))
    /\ NoAccountCall
    /\ UNCHANGED <<post_feedbacks, nextFeedbackId, txn, secvars>>

CreatePost == CreatePostUpTo(MaxPostId)

\* mutant: the update writes the counters back as a new post has them
UpdatePostResets(p, active) ==
    /\ p \in DOMAIN posts
    /\ posts' = [posts EXCEPT ![p] =
                    [NewPost EXCEPT !.is_active =
                        IF active = "unset" THEN posts[p].is_active
                        ELSE (active = "true")]]
    /\ Done(Plain("update_post", p, TRUE))
    /\ NoAccountCall
    /\ UNCHANGED <<nextPostId, post_feedbacks, nextFeedbackId, txn, secvars>>

\* PUT /posts/{post_id}: PostUpdate(is_active=...) with exclude_unset
UpdatePost(p, active) ==
    /\ IF p \in DOMAIN posts
       THEN /\ posts' = [posts EXCEPT ![p].is_active =
                            IF active = "unset" THEN @ ELSE (active = "true")]
            /\ Done(Plain("update_post", p, TRUE))
       ELSE /\ UNCHANGED posts
            /\ Done(Plain("update_post", p, FALSE))
    /\ NoAccountCall
    /\ UNCHANGED <<nextPostId, post_feedbacks, nextFeedbackId, txn, secvars>>

\* DELETE /posts/{post_id}: db.delete(post) with cascade="all, delete-orphan"
\* mutant: the post goes, its feedback rows stay
DeletePostOrphans(p) ==
    /\ IF p \in DOMAIN posts
       THEN /\ posts' = [i \in DOMAIN posts \ {p} |-> posts[i]]
            /\ post_feedbacks' = post_feedbacks
            /\ post_sections' = {s \in post_sections : s.post_id # p}
            /\ Done(Plain("delete_post", p, TRUE))
       ELSE /\ UNCHANGED <<posts, post_feedbacks, post_sections>>
            /\ Done(Plain("delete_post", p, FALSE))
    /\ NoAccountCall
    /\ UNCHANGED <<nextPostId, nextFeedbackId, nextSectionId, resp, txn>>

\* on Post.sections and Post.feedbacks
DeletePost(p) ==
    /\ IF p \in DOMAIN posts
       THEN /\ posts' = [i \in DOMAIN posts \ {p} |-> posts[i]]
            /\ post_feedbacks' = {f \in post_feedbacks : f.post_id # p}
            /\ post_sections' = {s \in post_sections : s.post_id # p}
            /\ Done(Plain("delete_post", p, TRUE))
       ELSE /\ UNCHANGED <<posts, post_feedbacks, post_sections>>
            /\ Done(Plain("delete_post", p, FALSE))
    /\ NoAccountCall
    /\ UNCHANGED <<nextPostId, nextFeedbackId, nextSectionId, resp, txn>>

\* ---- feedback -----------------------------------------------------------
\* mutant: a unique constraint on (post_id, user_id) rejects a second row
InsertAllowedUnique(p, u) == FeedbackRows(p, u) = {}

\* PostFeedback.__table_args__ holds no UniqueConstraint: the INSERT of a row
\* is never rejected because of the rows already stored
InsertAllowed(p, u) == TRUE

\* PostCRUD.add_feedback run against the rows it loaded: the feedback row ex
\* (or NoRow) and the post row as loaded (snap)
WriteAddFeedback(p, u, t, ex, snap) ==
    /\ IF ex # NoRow
       THEN /\ post_feedbacks' =
                   {IF f.id = ex.id /\ t # ex.feedback_type
                    THEN [f EXCEPT !.feedback_type = t] ELSE f :
                       f \in post_feedbacks}
            /\ posts' = [posts EXCEPT ![p] =
                            Flush(@, snap, SwitchCounters(snap, ex.feedback_type, t))]
            /\ UNCHANGED nextFeedbackId
       ELSE /\ nextFeedbackId <= MaxFeedbackId
            /\ post_feedbacks' = post_feedbacks \cup
                   {[id |-> nextFeedbackId, post_id |-> p, user_id |-> u,
                     feedback_type |-> t]}
            /\ nextFeedbackId' = nextFeedbackId + 1
            /\ posts' = [posts EXCEPT ![p] = Flush(@, snap, IncCounter(snap, t))]
    /\ WithinCount(posts'[p])

\* mutant: the handler does not look at is_active
AddFeedbackAnyPost(p, u, t) ==
    /\ IF p \in DOMAIN posts
       THEN \E ex \in FirstFeedback(p, u) :
               /\ WriteAddFeedback(p, u, t, ex, posts[p])
               /\ Done(Req("add_feedback", p, u, t, TRUE, ex.feedback_type, TRUE))
       ELSE /\ UNCHANGED <<posts, post_feedbacks, nextFeedbackId>>
            /\ Done([Plain("add_feedback", p, FALSE) EXCEPT
                        !.user_id = u, !.feedback_type = t])
    /\ NoAccountCall
    /\ UNCHANGED <<nextPostId, txn, secvars>>

\* POST /posts/{post_id}/feedback, the whole request
AddFeedback(p, u, t) ==
    /\ IF p \in DOMAIN posts /\ posts[p].is_active
       THEN \E ex \in FirstFeedback(p, u) :
               /\ WriteAddFeedback(p, u, t, ex, posts[p])
               /\ Done(Req("add_feedback", p, u, t, TRUE, ex.feedback_type, TRUE))
       ELSE /\ UNCHANGED <<posts, post_feedbacks, nextFeedbackId>>
            /\ Done([Plain("add_feedback", p, FALSE) EXCEPT
                        !.user_id = u, !.feedback_type = t])
    /\ NoAccountCall
    /\ UNCHANGED <<nextPostId, txn, secvars>>

\* mutant: the counter is lowered and the row is left in the table
WriteRemoveFeedbackKeepsRow(p, ex, snap) ==
    /\ UNCHANGED post_feedbacks
    /\ posts' = [posts EXCEPT ![p] =
                    Flush(@, snap, DecCounter(snap, ex.feedback_type))]

\* PostCRUD.remove_feedback run against the rows it loaded
WriteRemoveFeedback(p, ex, snap) ==
    /\ post_feedbacks' = {f \in post_feedbacks : f.id # ex.id}
    /\ posts' = [posts EXCEPT ![p] =
                    Flush(@, snap, DecCounter(snap, ex.feedback_type))]

\* DELETE /posts/{post_id}/feedback, the whole request
RemoveFeedback(p, u) ==
    /\ \E ex \in FirstFeedback(p, u) :
          IF ex # NoRow
          THEN /\ WriteRemoveFeedback(p, ex, posts[p])
               /\ Done(Req("remove_feedback", p, u, "none", TRUE, ex.feedback_type, TRUE))
          ELSE /\ UNCHANGED <<posts, post_feedbacks>>
               /\ Done([Plain("remove_feedback", p, FALSE) EXCEPT !.user_id = u])
    /\ NoAccountCall
    /\ UNCHANGED <<nextPostId, nextFeedbackId, txn, secvars>>

\* ---- feedback requests as overlapping transactions ----------------------
\* add_feedback up to its reads: the handler's check of the post, then
\* existing_feedback = ...first() and post = get_by_id(post_id)
BeginAddFeedback(p, u, t) ==
    /\ txn.pc = "idle"
    /\ p \in DOMAIN posts /\ posts[p].is_active
    /\ \E ex \in FirstFeedback(p, u) :
          txn' = [pc |-> "loaded", op |-> "add_feedback", post_id |-> p,
                  user_id |-> u, feedback_type |-> t, existing |-> ex,
                  snap |-> posts[p]]
    /\ NoAccountCall
    /\ UNCHANGED <<posts, nextPostId, post_feedbacks, nextFeedbackId, secvars,
                   last>>

\* remove_feedback up to its reads
BeginRemoveFeedback(p, u) ==
    /\ txn.pc = "idle"
    /\ FeedbackRows(p, u) # {}
    /\ \E ex \in FeedbackRows(p, u) :
          txn' = [pc |-> "loaded", op |-> "remove_feedback", post_id |-> p,
                  user_id |-> u, feedback_type |-> "none", existing |-> ex,
                  snap |-> posts[p]]
    /\ NoAccountCall
    /\ UNCHANGED <<posts, nextPostId, post_feedbacks, nextFeedbackId, secvars,
                   last>>

\* what the transaction would write to the post row
Pending(x) ==
    IF x.op = "remove_feedback" THEN DecCounter(x.snap, x.existing.feedback_type)
    ELSE IF x.existing # NoRow
         THEN SwitchCounters(x.snap, x.existing.feedback_type, x.feedback_type)
         ELSE IncCounter(x.snap, x.feedback_type)

\* the flush raises (StaleDataError, IntegrityError) and the transaction is
\* rolled back: an UPDATE of a row that is gone, or an INSERT that is rejected
FlushFails(x) ==
    \/ /\ x.post_id \notin DOMAIN posts
       /\ \/ Pending(x) # x.snap
          \/ x.op = "add_feedback" /\ x.existing = NoRow
          \/ x.op = "add_feedback" /\ x.feedback_type # x.existing.feedback_type
    \/ /\ x.op = "add_feedback"
       /\ x.existing # NoRow
       /\ x.feedback_type # x.existing.feedback_type
       /\ \A f \in post_feedbacks : f.id # x.existing.id
    \/ /\ x.op = "add_feedback"
       /\ x.existing = NoRow
       /\ ~InsertAllowed(x.post_id, x.user_id)

\* the rest of the request: the writes and db.commit()
CommitFeedback ==
    LET x == txn IN
    /\ x.pc = "loaded"
    /\ txn' = Idle
    /\ IF FlushFails(x)
       THEN /\ UNCHANGED <<posts, post_feedbacks, nextFeedbackId>>
            /\ Done(Req(x.op, x.post_id, x.user_id, x.feedback_type, FALSE,
                        x.existing.feedback_type, FALSE))
       ELSE /\ IF x.post_id \notin DOMAIN posts
               THEN /\ post_feedbacks' =
                          {f \in post_feedbacks : f.id # x.existing.id}
                    /\ UNCHANGED <<posts, nextFeedbackId>>
               ELSE IF x.op = "add_feedback"
                    THEN WriteAddFeedback(x.post_id, x.user_id, x.feedback_type,
                                          x.existing, x.snap)
                    ELSE /\ WriteRemoveFeedback(x.post_id, x.existing, x.snap)
                         /\ UNCHANGED nextFeedbackId
            /\ Done(Req(x.op, x.post_id, x.user_id, x.feedback_type, TRUE,
                        x.existing.feedback_type, FALSE))
    /\ NoAccountCall
    /\ UNCHANGED <<nextPostId, secvars>>

\* ---- sections and the "complete post" request ----------------------------
\* models.post.SectionType
SectionType == {"text", "image", "video"}

\* order_index values a client sends
OrderIndexes == {-1, 0, 1}

LongUrl == "http://v/<501 characters>"

\* len(v) of the strings a client sends
LenOf(v) ==
    CASE v = " hello " -> 7
      [] v = "   " -> 3
      [] v = "http://v" -> 8
      [] v = LongUrl -> 501
      [] OTHER -> 5

\* v.strip()
Strip(v) ==
    CASE v = " hello " -> "hello"
      [] v = "   " -> ""
      [] OTHER -> v

\* the files a client uploads in images
UploadA ==
    [filename |-> "a.jpg", content_type |-> "image/jpeg", extension |-> ".jpg",
     size_ok |-> TRUE, decodes |-> TRUE]

UploadB ==
    [filename |-> "b.pdf", content_type |-> "application/pdf",
     extension |-> ".pdf", size_ok |-> TRUE, decodes |-> FALSE]

\* what a request carries in images
Uploads == {{}, {UploadA}, {UploadA, UploadB}}

ALLOWED_EXTENSIONS == {".jpg", ".jpeg", ".png", ".gif", ".webp"}

ALLOWED_CONTENT_TYPES ==
    {"image/jpeg", "image/jpg", "image/png", "image/gif", "image/webp"}

validate_image_file(file) ==
    /\ file.content_type \in ALLOWED_CONTENT_TYPES
    /\ file.extension \in ALLOWED_EXTENSIONS

\* process_uploaded_image returns instead of raising
ProcessOk(file) == validate_image_file(file) /\ file.size_ok /\ file.decodes

\* PostSectionBase.validate_order_index does not raise
validate_order_index(v) == v >= 0

\* TextSectionCreate.validate_text_content does not raise
validate_text_content(v) ==
    /\ v # ""
    /\ LenOf(Strip(v)) >= 1 /\ Strip(v) # ""
    /\ LenOf(v) <= 10000

\* VideoSectionCreate.validate_video_url does not raise
validate_video_url(v) == ~(v # "" /\ LenOf(v) > 500)

\* the entries of a sections manifest
Entries ==
    [type : {"text"}, order_index : OrderIndexes, content : {" hello "}]
    \cup [type : {"video"}, order_index : OrderIndexes, content : {"http://v"}]
    \cup [type : {"image"}, order_index : OrderIndexes, content : {"a.jpg"}]
    \cup [type : {"text"}, order_index : {0}, content : {"   "}]
    \cup [type : {"image"}, order_index : {0}, content : {"b.pdf"}]
    \cup [type : {"video"}, order_index : {0}, content : {LongUrl}]
    \cup [type : {"audio"}, order_index : {0}, content : {""}]

Manifests == UNION {[1..n -> Entries] : n \in 0..MaxManifest}

\* the uploaded file whose filename is the entry's content
Matching(e, images) == {f \in images : f.filename = e.content}

\* mutant: an image entry without its file is passed over
EntryOutcomeSkipsMissing(e, images) ==
    CASE e.type = "text" ->
           IF validate_order_index(e.order_index) /\ validate_text_content(e.content)
           THEN "section" ELSE "raise"
      [] e.type = "image" ->
           IF Matching(e, images) = {} THEN "skip"
           ELSE IF \A f \in Matching(e, images) : ProcessOk(f)
                THEN "section" ELSE "skip"
      [] e.type = "video" ->
           IF validate_order_index(e.order_index) /\ validate_video_url(e.content)
           THEN "section" ELSE "raise"
      [] OTHER -> "return"

\* one turn of the loop over sections_data: a section is created, the
\* entry is passed over (create_image_section returned None), the schema
\* raises into the handler's except, or the handler returns an error
EntryOutcome(e, images) ==
    CASE e.type = "text" ->
           IF validate_order_index(e.order_index) /\ validate_text_content(e.content)
           THEN "section" ELSE "raise"
      [] e.type = "image" ->
           IF Matching(e, images) = {} THEN "return"
           ELSE IF \A f \in Matching(e, images) : ProcessOk(f)
                THEN "section" ELSE "skip"
      [] e.type = "video" ->
           IF validate_order_index(e.order_index) /\ validate_video_url(e.content)
           THEN "section" ELSE "raise"
      [] OTHER -> "return"

\* create_text_section / create_image_section / create_video_section
NewSection(e, pid, sid) ==
    [id |-> sid, post_id |-> pid, section_type |-> e.type,
     order_index |-> e.order_index,
     text_content |-> IF e.type = "text" THEN Strip(e.content) ELSE NULL,
     image_data |-> IF e.type = "image" THEN "jpeg" ELSE NULL,
     image_filename |-> IF e.type = "image" THEN e.content ELSE NULL,
     image_content_type |-> IF e.type = "image" THEN "image/jpeg" ELSE NULL,
     video_url |-> IF e.type = "video" THEN e.content ELSE NULL,
     video_filename |-> NULL]

\* for section_info in sections_data, from entry i on
RECURSIVE Loop(_, _, _, _, _)
Loop(manifest, i, pid, sid, images) ==
    IF i > Len(manifest) THEN [rows |-> {}, status |-> "ok", next |-> sid]
    ELSE LET out == EntryOutcome(manifest[i], images) IN
         IF out = "section"
         THEN LET rest == Loop(manifest, i + 1, pid, sid + 1, images) IN
              [rest EXCEPT !.rows = @ \cup {NewSection(manifest[i], pid, sid)}]
         ELSE IF out = "skip"
         THEN Loop(manifest, i + 1, pid, sid, images)
         ELSE [rows |-> {}, status |-> "error", next |-> sid]

\* a section request that leaves the tables as they are
NoSection(op, p) ==
    /\ UNCHANGED <<post_sections, nextSectionId>>
    /\ Done(Plain(op, p, FALSE))

\* a section request that stores one row for post p
StoreSection(op, p, e) ==
    /\ nextSectionId <= MaxSectionId
    /\ post_sections' = post_sections \cup {NewSection(e, p, nextSectionId)}
    /\ nextSectionId' = nextSectionId + 1
    /\ Done(Plain(op, p, TRUE))

\* POST /posts/{post_id}/sections/text: the body is a TextSectionCreate
AddTextSection(p, order_index, text_content) ==
    /\ LET e == [type |-> "text", order_index |-> order_index,
                 content |-> text_content] IN
       IF EntryOutcome(e, {}) = "section" /\ p \in DOMAIN posts
       THEN StoreSection("add_text_section", p, e)
       ELSE NoSection("add_text_section", p)
    /\ NoAccountCall
    /\ UNCHANGED <<posts, nextPostId, post_feedbacks, nextFeedbackId, resp, txn>>

\* POST /posts/{post_id}/sections/image: order_index is a bare form field
AddImageSection(p, order_index, image) ==
    /\ LET e == [type |-> "image", order_index |-> order_index,
                 content |-> image.filename] IN
       IF p \in DOMAIN posts /\ ProcessOk(image)
       THEN StoreSection("add_image_section", p, e)
       ELSE NoSection("add_image_section", p)
    /\ NoAccountCall
    /\ UNCHANGED <<posts, nextPostId, post_feedbacks, nextFeedbackId, resp, txn>>

\* POST /posts/{post_id}/sections/video: the body is a VideoSectionCreate
AddVideoSection(p, order_index, video_url) ==
    /\ LET e == [type |-> "video", order_index |-> order_index,
                 content |-> video_url] IN
       IF EntryOutcome(e, {}) = "section" /\ p \in DOMAIN posts
       THEN StoreSection("add_video_section", p, e)
       ELSE NoSection("add_video_section", p)
    /\ NoAccountCall
    /\ UNCHANGED <<posts, nextPostId, post_feedbacks, nextFeedbackId, resp, txn>>

\* the sequences that list every row of S once
Listings(S) ==
    {q \in [1..Cardinality(S) -> S] : \A i, j \in DOMAIN q : i # j => q[i] # q[j]}

\* mutant: the relationship has no order_by
OrderedByIndexNot(S) == Listings(S)

\* Post.sections, order_by="PostSection.order_index": ties in any order
OrderedByIndex(S) ==
    {q \in Listings(S) :
        \A i, j \in DOMAIN q : i < j => q[i].order_index <= q[j].order_index}

\* the sections part of convert_post_to_dict
SectionDict(s) ==
    [id |-> s.id, section_type |-> s.section_type, order_index |-> s.order_index]

\* POST /posts/complete, the whole request. form: "ok", or what makes the
\* handler fail before any row is written (sections is no JSON, or PostCreate
\* rejects the header or description)
CreateCompletePost(form, manifest, images) ==
    /\ nextPostId <= MaxPostId
    /\ nextSectionId + Len(manifest) - 1 <= MaxSectionId
    /\ IF form # "ok"
       THEN /\ UNCHANGED <<posts, nextPostId, post_sections, nextSectionId>>
            /\ resp' = [NoResponse EXCEPT !.status = "error"]
            /\ Done(Plain("create_complete_post", 0, FALSE))
       ELSE LET r == Loop(manifest, 1, nextPostId, nextSectionId, images) IN
            /\ posts' = [i \in DOMAIN posts \cup {nextPostId} |->
                            IF i = nextPostId THEN NewPost ELSE posts[i]]
            /\ nextPostId' = nextPostId + 1
            /\ post_sections' = post_sections \cup r.rows
            /\ nextSectionId' = r.next
            /\ \E q \in OrderedByIndex(r.rows) :
                  resp' = [status |-> r.status, post_id |-> nextPostId,
                           manifest |-> manifest, images |-> images,
                           sections |-> IF r.status = "ok"
                                        THEN [i \in DOMAIN q |-> SectionDict(q[i])]
                                        ELSE <<>>,
                           first_id |-> nextSectionId]
            /\ Done(Plain("create_complete_post", nextPostId, TRUE))
    /\ NoAccountCall
    /\ UNCHANGED <<post_feedbacks, nextFeedbackId, txn>>

\* ---- specification: one request at a time -------------------------------
Next ==
    \/ CreatePost
    \/ \E p \in PostIds, a \in {"true", "false", "unset"} : UpdatePost(p, a)
    \/ \E p \in PostIds : DeletePost(p)
    \/ \E p \in PostIds, u \in Users, t \in FeedbackType : AddFeedback(p, u, t)
    \/ \E p \in PostIds, u \in Users : RemoveFeedback(p, u)

Spec == Init /\ [][Next]_vars

\* ---- specification: feedback requests may overlap ------------------------
NextConc ==
    \/ CreatePostUpTo(1)
    \/ \E p \in ConcPostIds : DeletePost(p)
    \/ \E p \in ConcPostIds, u \in Users, t \in FeedbackType : AddFeedback(p, u, t)
    \/ \E p \in ConcPostIds, u \in Users : RemoveFeedback(p, u)
    \/ \E p \in ConcPostIds, u \in Users, t \in FeedbackType :
          BeginAddFeedback(p, u, t)
    \/ \E p \in ConcPostIds, u \in Users : BeginRemoveFeedback(p, u)
    \/ CommitFeedback

SpecConc == Init /\ [][NextConc]_vars

\* ---- specification: complete posts ---------------------------------------
NextComplete ==
    \/ \E form \in {"ok", "bad_json", "bad_header"}, manifest \in Manifests,
          images \in Uploads : CreateCompletePost(form, manifest, images)
    \/ \E p \in PostIds : DeletePost(p)

SpecComplete == Init /\ [][NextComplete]_vars

\* ---- specification: posts with their sections and feedback ---------------
NextCascade ==
    \/ CreatePost
    \/ \E p \in PostIds, o \in {-1, 0} : AddTextSection(p, o, " hello ")
    \/ \E p \in PostIds, f \in {UploadA, UploadB} : AddImageSection(p, 0, f)
    \/ \E p \in PostIds, v \in {"http://v", LongUrl} : AddVideoSection(p, 0, v)
    \/ \E p \in PostIds, u \in Users, t \in FeedbackType : AddFeedback(p, u, t)
    \/ \E p \in PostIds : DeletePost(p)

SpecCascade == Init /\ [][NextCascade]_vars

\* ---- feedback counters: claims -------------------------------------------
Counter(post, t) ==
    IF t = "positive" THEN post.positive_feedbacks ELSE post.negative_feedbacks

Before(r, t) == IF t = "positive" THEN r.pos0 ELSE r.neg0

OtherType(t) == IF t = "positive" THEN "negative" ELSE "positive"

\* the request completed just before was add_feedback(p, u, t), served
JustAdded(p, u, t) ==
    /\ last.op = "add_feedback" /\ last.ok /\ last.atomic
    /\ last.post_id = p /\ last.user_id = u /\ last.feedback_type = t

\* after the step the counter of type t of post p is 1 above what it was
\* before the request recorded in last, and the other counter is as it was
OneHigherThanBeforeFirst(p, t) ==
    /\ Counter(posts'[p], t) = Before(last, t) + 1
    /\ Counter(posts'[p], OtherType(t)) = Before(last, OtherType(t))

\* C1 as stated: for any post and user, add_feedback(P, U, type) twice in a
\* row leaves the counter of that type exactly 1 higher than before the first
\* call and the other counter unchanged.
C1_AsStated ==
    [][\A p \in PostIds, u \in Users, t \in FeedbackType :
          (JustAdded(p, u, t) /\ AddFeedback(p, u, t))
          => OneHigherThanBeforeFirst(p, t)]_vars

\* C1 amended: when U has no feedback row on P before the first call,
\* add_feedback(P, U, type) twice in a row leaves the counter of that type
\* exactly 1 higher than before the first call and the other counter unchanged.
C1_TwiceCountsOnce ==
    [][\A p \in PostIds, u \in Users, t \in FeedbackType :
          (JustAdded(p, u, t) /\ last.existing = "none" /\ AddFeedback(p, u, t))
          => OneHigherThanBeforeFirst(p, t)]_vars

\* the second of the two calls has been served: it found the row of the first
C1_Witness ==
    /\ last.op = "add_feedback" /\ last.ok /\ last.repeat
    /\ last.existing = last.feedback_type
    /\ Counter(posts[last.post_id], last.feedback_type)
          = Before(last, last.feedback_type)

C4_OneRowPerPair ==
    \A p \in PostIds, u \in Users : Cardinality(FeedbackRows(p, u)) <= 1

C4_Witness ==
    /\ last.op = "add_feedback" /\ last.ok
    /\ last.existing # "none"
    /\ Cardinality(FeedbackRows(last.post_id, last.user_id)) = 1

SurvivingPosts == DOMAIN posts \cap DOMAIN posts'

TakesAway(p, t) ==
    /\ last'.post_id = p /\ last'.ok /\ last'.existing = t
    /\ \/ last'.op = "remove_feedback"
       \/ last'.op = "add_feedback" /\ last'.feedback_type = OtherType(t)

RemovedOne(p, f) ==
    /\ post_feedbacks' = post_feedbacks \ {f}
    /\ Counter(posts'[p], f.feedback_type)
          = (IF Counter(posts[p], f.feedback_type) = 0
             THEN 0 ELSE Counter(posts[p], f.feedback_type) - 1)
    /\ Counter(posts'[p], OtherType(f.feedback_type))
          = Counter(posts[p], OtherType(f.feedback_type))
    /\ posts'[p].is_active = posts[p].is_active
    /\ DOMAIN posts' = DOMAIN posts
    /\ \A q \in DOMAIN posts \ {p} : posts'[q] = posts[q]
    /\ last'.ok

\* C3: remove_feedback(P, U) with a row for (P, U) stored deletes that row
\* and lowers the counter of the row's type by 1, never below zero, also
\* when the counter is 0 already; with no row stored it returns false and
\* changes nothing.
C3_RemoveFeedback ==
    [][\A p \in PostIds, u \in Users :
          RemoveFeedback(p, u)
          => IF FeedbackRows(p, u) = {}
             THEN /\ ~last'.ok
                  /\ UNCHANGED <<posts, nextPostId, post_feedbacks,
                                 nextFeedbackId, post_sections, nextSectionId>>
             ELSE \E f \in FeedbackRows(p, u) : RemovedOne(p, f)]_vars

\* a row was removed while its counter stood at 0
C3_Witness ==
    /\ last.op = "remove_feedback" /\ last.ok /\ last.atomic
    /\ last.existing \in FeedbackType
    /\ Before(last, last.existing) = 0
    /\ Counter(posts[last.post_id], last.existing) = 0

\* C5: nothing keeps two add_feedback requests for one (post, user) from
\* both reading "no row" before either commits: the commit of a request that
\* read no row inserts its row whatever is stored by then, so that two rows
\* for the pair are stored, and it writes the counter it computed from the
\* post it read, so that the other request's increment is lost.
C5_SecondInsertGoesThrough ==
    [][(/\ CommitFeedback
        /\ txn.op = "add_feedback"
        /\ txn.existing = NoRow
        /\ txn.post_id \in DOMAIN posts)
       => /\ last'.ok
          /\ Cardinality({f \in post_feedbacks' :
                             f.post_id = txn.post_id /\ f.user_id = txn.user_id})
               = Cardinality(FeedbackRows(txn.post_id, txn.user_id)) + 1
          /\ Counter(posts'[txn.post_id], txn.feedback_type)
               = Counter(txn.snap, txn.feedback_type) + 1]_vars

\* two rows of one pair are stored and the post counts one of them only
C5_Witness ==
    /\ last.op = "add_feedback" /\ last.ok /\ ~last.atomic
    /\ last.existing = "none"
    /\ Cardinality(FeedbackRows(last.post_id, last.user_id)) = 2
    /\ posts[last.post_id].positive_feedbacks
          + posts[last.post_id].negative_feedbacks = 1

\* C6: every stored post has positive_feedbacks >= 0 and
\* negative_feedbacks >= 0 in every reachable state.
C6_CountersNonNegative ==
    \A p \in DOMAIN posts :
       posts[p].positive_feedbacks >= 0 /\ posts[p].negative_feedbacks >= 0

\* an add_feedback changed a row whose counter stood at 0
C6_Witness ==
    /\ last.op = "add_feedback" /\ last.ok
    /\ last.existing \in FeedbackType
    /\ last.existing # last.feedback_type
    /\ Before(last, last.existing) = 0
    /\ Counter(posts[last.post_id], last.existing) = 0

\* ---- C8 ------------------------------------------------------------------
SectionsOf(p) == {s \in post_sections : s.post_id = p}

FeedbacksOf(p) == {f \in post_feedbacks : f.post_id = p}

\* C8: deleting a post removes every section and every feedback row of that
\* post, and leaves the sections and feedback rows of other posts as they were
C8_DeleteCascades ==
    [][\A p \in PostIds :
          (DeletePost(p) /\ p \in DOMAIN posts) =>
             /\ p \notin DOMAIN posts'
             /\ \A s \in post_sections' : s.post_id # p
             /\ \A f \in post_feedbacks' : f.post_id # p
             /\ {s \in post_sections : s.post_id # p} = post_sections'
             /\ {f \in post_feedbacks : f.post_id # p} = post_feedbacks']_vars

\* a post that had a section and a feedback row was just deleted (their ids
\* are gone), next to another post that keeps a section and a feedback row
C8_Witness ==
    /\ last.op = "delete_post" /\ last.ok
    /\ Cardinality(post_sections) < nextSectionId - 1
    /\ Cardinality(post_feedbacks) < nextFeedbackId - 1
    /\ \E q \in DOMAIN posts : SectionsOf(q) # {} /\ FeedbacksOf(q) # {}

\* ---- C9, C10 -------------------------------------------------------------
\* the request just answered is a complete post whose post row was written
CompleteCreated == last.op = "create_complete_post" /\ last.ok

KnownTypes == \A i \in DOMAIN resp.manifest : resp.manifest[i].type \in SectionType

Uploaded(e) == \E f \in resp.images : f.filename = e.content

ImagesUploaded ==
    \A i \in DOMAIN resp.manifest :
        resp.manifest[i].type = "image" => Uploaded(resp.manifest[i])

\* entry e passes the section schema, and its image the image pipeline
EntryValid(e) ==
    /\ e.type \in {"text", "video"} => e.order_index >= 0
    /\ e.type = "text" => Strip(e.content) # "" /\ LenOf(e.content) <= 10000
    /\ e.type = "video" => LenOf(e.content) <= 500
    /\ e.type = "image" =>
          \A f \in resp.images :
              f.filename = e.content =>
                 /\ f.content_type \in ALLOWED_CONTENT_TYPES
                 /\ f.extension \in ALLOWED_EXTENSIONS
                 /\ f.size_ok /\ f.decodes

EntriesValid == \A i \in DOMAIN resp.manifest : EntryValid(resp.manifest[i])

\* section s stores entry e
Stores(s, e) == s.section_type = e.type /\ s.order_index = e.order_index

\* the answered post has exactly one section per manifest entry, with the
\* entry's type and order_index, and the answer lists them by order_index
OneSectionPerEntry ==
    /\ resp.status = "ok"
    /\ Cardinality(SectionsOf(resp.post_id)) = Len(resp.manifest)
    /\ \A i \in DOMAIN resp.manifest :
          \E s \in SectionsOf(resp.post_id) :
              s.id = resp.first_id + i - 1 /\ Stores(s, resp.manifest[i])
    /\ Len(resp.sections) = Len(resp.manifest)
    /\ {resp.sections[i].id : i \in DOMAIN resp.sections}
          = {s.id : s \in SectionsOf(resp.post_id)}
    /\ \A i, j \in DOMAIN resp.sections :
          i < j => resp.sections[i].order_index <= resp.sections[j].order_index

MissingImage ==
    {i \in DOMAIN resp.manifest :
        resp.manifest[i].type = "image" /\ ~Uploaded(resp.manifest[i])}

\* the entries at which the handler stops
Stops ==
    MissingImage
    \cup {i \in DOMAIN resp.manifest : resp.manifest[i].type \notin SectionType}
    \cup {i \in DOMAIN resp.manifest :
             resp.manifest[i].type \in {"text", "video"}
             /\ ~EntryValid(resp.manifest[i])}

FirstStop == CHOOSE i \in Stops : \A j \in Stops : i <= j

\* the entries before the stop that make a section
MadeBeforeStop ==
    {i \in 1..(FirstStop - 1) : EntryValid(resp.manifest[i])}

\* C10: a complete post with an image entry whose file was not uploaded is
\* answered with an error; no entry after the stop is processed, while the
\* post row and the sections made before it stay stored
C10_StopsWithoutRollback ==
    (CompleteCreated /\ MissingImage # {}) =>
       /\ resp.status = "error"
       /\ resp.post_id \in DOMAIN posts
       /\ Cardinality(SectionsOf(resp.post_id)) = Cardinality(MadeBeforeStop)
       /\ \A s \in SectionsOf(resp.post_id) :
             \E i \in MadeBeforeStop : Stores(s, resp.manifest[i])
       /\ \A i \in MadeBeforeStop :
             \E s \in SectionsOf(resp.post_id) : Stores(s, resp.manifest[i])

\* a text entry, then an image entry without its file: the text section
\* is stored under the new post and the answer is an error
C10_Witness ==
    /\ CompleteCreated /\ MissingImage = {2}
    /\ resp.manifest[1].type = "text" /\ EntryValid(resp.manifest[1])
    /\ resp.status = "error"
    /\ Cardinality(SectionsOf(resp.post_id)) = 1

\* ---- authorization: api/auth.py ------------------------------------------
\* each dependency is the status it raises, or 200 when it returns the claims
get_current_user(token) == IF get_user_from_token(token) THEN 200 ELSE 401

get_current_active_user(token) ==
    IF get_current_user(token) # 200 THEN get_current_user(token)
    ELSE IF ~token.is_active THEN 400 ELSE 200

\* mutant: any active caller passes as admin
get_current_admin_user_any(token) == get_current_active_user(token)

get_current_admin_user(token) ==
    IF get_current_active_user(token) # 200 THEN get_current_active_user(token)
    ELSE IF token.user_type # "ADMIN" THEN 403 ELSE 200

\* ---- users: crud/user.py ---------------------------------------------------
get_by_username(username) == {u \in DOMAIN users : users[u].username = username}

get_by_email(email) == {u \in DOMAIN users : users[u].email = email}

get_by_phone(phone) == {u \in DOMAIN users : users[u].phone = phone}

\* a body that sets no field
NoFields ==
    [username |-> Unset, email |-> Unset, phone |-> Unset, user_type |-> Unset,
     is_active |-> Unset]

\* the answer to the request: req becomes its record, with the username,
\* email, phone and user_type of the body
Answer(op, c, target, body, status) ==
    req' = [NoCall EXCEPT !.op = op, !.caller = c, !.target = target,
                          !.username = body.username, !.email = body.email,
                          !.phone = body.phone, !.user_type = body.user_type,
                          !.status = status]

\* a users request leaves the other tables, the tokens and the open
\* registration as they are
UsersOnly == UNCHANGED <<tokens, reg, devices, nextDeviceId>> /\ NoContentCall

\* the request fails and writes nothing
Refuse(op, c, target, body, status) ==
    /\ UNCHANGED <<users, nextUserId>>
    /\ Answer(op, c, target, body, status)

\* mutant: the phone column is unique too
UniqueOkWithPhone(id, user) ==
    \A o \in DOMAIN users \ {id} :
        /\ users[o].username # user.username /\ users[o].email # user.email
        /\ user.phone = NULL \/ users[o].phone # user.phone

\* users.username and users.email are unique=True; users.phone is only indexed
UniqueOk(id, user) ==
    \A o \in DOMAIN users \ {id} :
        users[o].username # user.username /\ users[o].email # user.email

\* UserCRUD.create: the INSERT and its commit
UserCRUD_create(op, c, body, user) ==
    /\ nextUserId <= MaxUserId
    /\ IF UniqueOk(0, user)
       THEN /\ users' = (nextUserId :> user) @@ users
            /\ nextUserId' = nextUserId + 1
            /\ Answer(op, c, nextUserId, body, 201)
       ELSE Refuse(op, c, 0, body, 500)

\* mutant: the phone is not looked up
ConflictNoPhone(username, email, phone) ==
    \/ get_by_username(username) # {}
    \/ get_by_email(email) # {}

\* the three lookups before a create
Conflict(username, email, phone) ==
    \/ get_by_username(username) # {}
    \/ get_by_email(email) # {}
    \/ phone # NULL /\ get_by_phone(phone) # {}

\* the phone of a validated body
Cleaned(phone) == IF phone \in {NULL, Unset} THEN phone ELSE validate_phone(phone)

\* the body of a registration, as it was sent
Wanted(username, email, phone, user_type) ==
    [NoFields EXCEPT !.username = username, !.email = email, !.phone = phone,
                     !.user_type = user_type]

\* mutant: the registration is stored as an admin
UserCreateAsAdmin(username, email, phone) ==
    [username |-> username, email |-> email, phone |-> Cleaned(phone),
     user_type |-> "ADMIN", is_active |-> TRUE]

\* the UserCreate that create_user builds from a UserRegister body
UserCreateOf(username, email, phone) ==
    [username |-> username, email |-> email, phone |-> Cleaned(phone),
     user_type |-> "USER", is_active |-> TRUE]

\* POST /users/: public registration
create_user(username, email, phone) ==
    /\ IF Conflict(username, email, Cleaned(phone))
       THEN Refuse("create_user", 0, 0,
                   Wanted(username, email, phone, Unset), 400)
       ELSE UserCRUD_create("create_user", 0,
                Wanted(username, email, phone, Unset),
                UserCreateOf(username, email, phone))
    /\ UsersOnly

\* POST /users/ with a user_type in the body: UserRegister forbids extra
\* fields, the body does not validate
create_user_with_role(username, email, phone, user_type) ==
    /\ Refuse("create_user", 0, 0,
              Wanted(username, email, phone, user_type), 422)
    /\ UsersOnly

\* POST /admin/users
admin_create_user(c, username, email, phone, user_type, is_active) ==
    /\ IF get_current_admin_user(tokens[c]) # 200
       THEN Refuse("admin_create_user", c, 0,
                   Wanted(username, email, phone, user_type),
                   get_current_admin_user(tokens[c]))
       ELSE IF Conflict(username, email, Cleaned(phone))
       THEN Refuse("admin_create_user", c, 0,
                   Wanted(username, email, phone, user_type), 400)
       ELSE UserCRUD_create("admin_create_user", c,
                Wanted(username, email, phone, user_type),
                [username |-> username, email |-> email, phone |-> Cleaned(phone),
                 user_type |-> user_type, is_active |-> is_active])
    /\ UsersOnly

\* the bodies of an update: every field is a value or left out
UserUpdates ==
    [username : Usernames \cup {Unset}, email : Emails \cup {Unset},
     phone : PhoneInputs \cup {Unset}, user_type : UserType \cup {Unset},
     is_active : {"true", "false", Unset}]

FieldsSet(data) ==
    {f \in {"username", "email", "phone", "user_type", "is_active"} :
        data[f] # Unset}

\* UserUpdate: the validators run on the body
Validated(data) == [data EXCEPT !.phone = Cleaned(@)]

\* for field, value in update_data.items(): setattr(db_user, field, value)
SetFields(user, data) ==
    [username |-> IF data.username = Unset THEN user.username ELSE data.username,
     email |-> IF data.email = Unset THEN user.email ELSE data.email,
     phone |-> IF data.phone = Unset THEN user.phone ELSE data.phone,
     user_type |-> IF data.user_type = Unset THEN user.user_type
                   ELSE data.user_type,
     is_active |-> IF data.is_active = Unset THEN user.is_active
                   ELSE data.is_active = "true"]

\* UserCRUD.update and the handler's answer to what it returns
UserCRUD_update(op, c, user_id, data) ==
    IF user_id \notin DOMAIN users
    THEN Refuse(op, c, user_id, data, 404)
    ELSE IF ~UniqueOk(user_id, SetFields(users[user_id], data))
    THEN Refuse(op, c, user_id, data, 500)
    ELSE /\ users' = [users EXCEPT ![user_id] = SetFields(@, data)]
         /\ UNCHANGED nextUserId
         /\ Answer(op, c, user_id, data, 200)

\* PUT /users/me
update_my_profile(c, data) ==
    /\ IF get_current_active_user(tokens[c]) # 200
       THEN Refuse("update_my_profile", c, tokens[c].user_id, data,
                   get_current_active_user(tokens[c]))
       ELSE IF tokens[c].user_type # "ADMIN" /\ data.user_type # Unset
       THEN Refuse("update_my_profile", c, tokens[c].user_id, data, 403)
       ELSE UserCRUD_update("update_my_profile", c, tokens[c].user_id,
                            Validated(data))
    /\ UsersOnly

\* PUT /users/{user_id}
update_user(c, user_id, data) ==
    /\ IF get_current_active_user(tokens[c]) # 200
       THEN Refuse("update_user", c, user_id, data,
                   get_current_active_user(tokens[c]))
       ELSE IF tokens[c].user_type # "ADMIN" /\ tokens[c].user_id # user_id
       THEN Refuse("update_user", c, user_id, data, 403)
       ELSE IF tokens[c].user_type # "ADMIN" /\ data.user_type # Unset
       THEN Refuse("update_user", c, user_id, data, 403)
       ELSE UserCRUD_update("update_user", c, user_id, Validated(data))
    /\ UsersOnly

\* an admin endpoint that ends in UserCRUD.update(user_id, data)
AdminUpdate(op, c, user_id, data, not_self) ==
    /\ IF get_current_admin_user(tokens[c]) # 200
       THEN Refuse(op, c, user_id, data,
                   get_current_admin_user(tokens[c]))
       ELSE IF not_self /\ user_id = tokens[c].user_id
       THEN Refuse(op, c, user_id, data, 400)
       ELSE UserCRUD_update(op, c, user_id, data)
    /\ UsersOnly

\* PUT /admin/users/{user_id}: AdminUserUpdate has no validators
admin_update_user(c, user_id, data) ==
    AdminUpdate("admin_update_user", c, user_id, data, FALSE)

\* POST /admin/users/{user_id}/make-admin
make_user_admin(c, user_id) ==
    AdminUpdate("make_user_admin", c, user_id,
                [NoFields EXCEPT !.user_type = "ADMIN"], FALSE)

\* POST /admin/users/{user_id}/remove-admin
remove_user_admin(c, user_id) ==
    AdminUpdate("remove_user_admin", c, user_id,
                [NoFields EXCEPT !.user_type = "USER"], TRUE)

\* POST /admin/users/{user_id}/activate
activate_user(c, user_id) ==
    AdminUpdate("activate_user", c, user_id,
                [NoFields EXCEPT !.is_active = "true"], FALSE)

\* POST /admin/users/{user_id}/deactivate
deactivate_user(c, user_id) ==
    AdminUpdate("deactivate_user", c, user_id,
                [NoFields EXCEPT !.is_active = "false"], TRUE)

\* UserCRUD.delete and the handler's answer; post_feedbacks.user_id is a
\* foreign key to users.id
UserCRUD_delete(op, c, user_id) ==
    IF user_id \notin DOMAIN users
    THEN Refuse(op, c, user_id, NoFields, 404)
    ELSE IF \E f \in post_feedbacks : f.user_id = user_id
    THEN Refuse(op, c, user_id, NoFields, 500)
    ELSE /\ users' = [u \in DOMAIN users \ {user_id} |-> users[u]]
         /\ UNCHANGED nextUserId
         /\ Answer(op, c, user_id, NoFields, 204)

\* DELETE /users/me
delete_my_account(c) ==
    /\ IF get_current_active_user(tokens[c]) # 200
       THEN Refuse("delete_my_account", c, tokens[c].user_id, NoFields,
                   get_current_active_user(tokens[c]))
       ELSE IF tokens[c].user_type = "ADMIN"
       THEN Refuse("delete_my_account", c, tokens[c].user_id, NoFields, 400)
       ELSE UserCRUD_delete("delete_my_account", c, tokens[c].user_id)
    /\ UsersOnly

\* DELETE /users/{user_id}
delete_user(c, user_id) ==
    /\ IF get_current_admin_user(tokens[c]) # 200
       THEN Refuse("delete_user", c, user_id, NoFields,
                   get_current_admin_user(tokens[c]))
       ELSE UserCRUD_delete("delete_user", c, user_id)
    /\ UsersOnly

\* ---- tokens ------------------------------------------------------------------
\* a request that writes no table
ReadOnly ==
    UNCHANGED <<users, nextUserId, reg, devices, nextDeviceId>> /\ NoContentCall

\* POST /auth/login of client c as user u; the password is right or wrong
login(c, u, password_ok) ==
    /\ u \in DOMAIN users
    /\ IF password_ok
       THEN /\ tokens' = [tokens EXCEPT ![c] = create_access_token(u, users[u])]
            /\ Answer("login", c, u, NoFields, 200)
       ELSE /\ UNCHANGED tokens
            /\ Answer("login", c, u, NoFields, 401)
    /\ ReadOnly

\* mutant: the new token repeats the claims of the old one
refresh_token_keeps(c) ==
    /\ IF get_current_active_user(tokens[c]) # 200
       THEN /\ UNCHANGED tokens
            /\ Answer("refresh_token", c, tokens[c].user_id, NoFields,
                      get_current_active_user(tokens[c]))
       ELSE IF get_by_username(tokens[c].username) = {}
       THEN /\ UNCHANGED tokens
            /\ Answer("refresh_token", c, tokens[c].user_id, NoFields, 404)
       ELSE \E u \in get_by_username(tokens[c].username) :
               /\ UNCHANGED tokens
               /\ Answer("refresh_token", c, u, NoFields, 200)
    /\ ReadOnly

\* POST /auth/refresh: the user row is looked up by the username claim
refresh_token(c) ==
    /\ IF get_current_active_user(tokens[c]) # 200
       THEN /\ UNCHANGED tokens
            /\ Answer("refresh_token", c, tokens[c].user_id, NoFields,
                      get_current_active_user(tokens[c]))
       ELSE IF get_by_username(tokens[c].username) = {}
       THEN /\ UNCHANGED tokens
            /\ Answer("refresh_token", c, tokens[c].user_id, NoFields, 404)
       ELSE \E u \in get_by_username(tokens[c].username) :
               /\ tokens' = [tokens EXCEPT ![c] = create_access_token(u, users[u])]
               /\ Answer("refresh_token", c, u, NoFields, 200)
    /\ ReadOnly

\* the token of client c passes its expiry time
Expire(c) ==
    /\ tokens[c].valid
    /\ tokens' = [tokens EXCEPT ![c] = NoToken]
    /\ Answer("expire", c, 0, NoFields, 0)
    /\ ReadOnly

\* ---- specification: roles, one request at a time ---------------------------
\* the update bodies that leave email and phone out, and take no username
\* but the admin account's
RoleUpdates ==
    {d \in UserUpdates :
        d.email = Unset /\ d.phone = Unset /\ d.username # "testuser"}

NextRoles ==
    \/ create_user("testuser", "testuser@example.com", NULL)
    \/ \E c \in UserIds, d \in RoleUpdates : update_my_profile(c, d)
    \/ \E c \in UserIds, u \in UserIds, d \in RoleUpdates : update_user(c, u, d)
    \/ \E c \in UserIds, u \in UserIds, d \in RoleUpdates :
          admin_update_user(c, u, d)
    \/ \E c \in UserIds, u \in UserIds : make_user_admin(c, u)
    \/ \E c \in UserIds, u \in UserIds : remove_user_admin(c, u)
    \/ \E c \in UserIds, u \in UserIds : activate_user(c, u)
    \/ \E c \in UserIds, u \in UserIds : deactivate_user(c, u)
    \/ \E c \in UserIds : delete_my_account(c)
    \/ \E c \in UserIds, u \in UserIds : delete_user(c, u)
    \/ \E c \in UserIds, ok \in BOOLEAN : login(c, c, ok)

SpecRoles == Init /\ [][NextRoles]_vars

\* ---- C11, C12, C13 ---------------------------------------------------------
\* the token the request just answered was made with
CallerToken == tokens[req'.caller]

\* the request just answered is a profile update whose body sets user_type
TypeUpdate ==
    /\ req'.op \in {"update_my_profile", "update_user", "admin_update_user"}
    /\ req'.user_type # Unset

\* the target row now holds the user_type of the body
TypeStored ==
    /\ req'.status = 200
    /\ req'.target \in DOMAIN users'
    /\ users'[req'.target].user_type = req'.user_type

\* no other row holds the username of the body
NameFree ==
    \/ req'.username = Unset
    \/ \A o \in DOMAIN users \ {req'.target} :
          users[o].username # req'.username

\* C11: a profile update of an existing user that sets user_type is answered
\* 403 and changes nothing when the caller's verified token has a role other
\* than ADMIN; with an ADMIN token whose is_active claim is true the same
\* request (its username free) succeeds and stores the new user_type
C11_AsStated ==
    [][(TypeUpdate /\ CallerToken.valid /\ req'.target \in DOMAIN users) =>
          IF CallerToken.user_type # "ADMIN"
          THEN req'.status = 403 /\ users' = users
          ELSE (CallerToken.is_active /\ NameFree) => TypeStored]_vars

\* what the code does where C11 speaks: a profile update that sets user_type,
\* made with a verified token whose role is not ADMIN, changes nothing and is
\* answered 403 (400 when the token's is_active claim is false); made with an
\* active ADMIN token it stores the new user_type when the target row exists
\* and the body's username is held by no other row
C11_TypeUpdateIsAdminOnly ==
    [][(TypeUpdate /\ CallerToken.valid) =>
          IF CallerToken.user_type # "ADMIN"
          THEN /\ req'.status = IF CallerToken.is_active THEN 403 ELSE 400
               /\ users' = users
          ELSE (/\ CallerToken.is_active
                /\ req'.target \in DOMAIN users
                /\ NameFree) => TypeStored]_vars

\* C12: no request made without an ADMIN token changes the user_type or the
\* is_active of a user row
C12_AsStated ==
    [][(req'.caller \notin UserIds \/ CallerToken.user_type # "ADMIN") =>
          \A u \in DOMAIN users \cap DOMAIN users' :
              /\ users'[u].user_type = users[u].user_type
              /\ users'[u].is_active = users[u].is_active]_vars

\* C13: no delete request made with an ADMIN token removes the row of the
\* token's own user_id
C13_AsStated ==
    [][(/\ req'.op \in {"delete_my_account", "delete_user"}
        /\ req'.caller \in UserIds
        /\ CallerToken.valid /\ CallerToken.user_type = "ADMIN"
        /\ req'.target = CallerToken.user_id
        /\ CallerToken.user_id \in DOMAIN users)
          => CallerToken.user_id \in DOMAIN users']_vars

\* ---- C14, C15: usernames, emails and phones ---------------------------------
\* bodies that leave the role and the active flag alone
AccountUpdates ==
    {d \in UserUpdates : d.user_type = Unset /\ d.is_active = Unset}

NextAccounts ==
    \/ \E username \in Usernames, email \in Emails,
          phone \in PhoneInputs \cup {NULL} :
            create_user(username, email, phone)
    \/ \E c \in UserIds, username \in Usernames, email \in Emails,
          phone \in PhoneInputs \cup {NULL}, user_type \in UserType :
            admin_create_user(c, username, email, phone, user_type, TRUE)
    \/ \E c \in UserIds, d \in AccountUpdates : update_my_profile(c, d)
    \/ \E c \in UserIds, u \in UserIds, d \in AccountUpdates :
          update_user(c, u, d)
    \/ \E c \in UserIds, ok \in BOOLEAN : login(c, c, ok)

SpecAccounts == Init /\ [][NextAccounts]_vars

\* the request just answered is a registration that got past its dependencies
Registration ==
    \/ req'.op = "create_user"
    \/ /\ req'.op = "admin_create_user"
       /\ CallerToken.valid /\ CallerToken.is_active
       /\ CallerToken.user_type = "ADMIN"

\* the rows that hold the username, the email or the phone of the body
HoldersOf(body, rows) ==
    {u \in DOMAIN rows :
        \/ rows[u].username = body.username
        \/ rows[u].email = body.email
        \/ body.phone # NULL /\ rows[u].phone = validate_phone(body.phone)}

C15_AsStated ==
    \A a \in DOMAIN users, b \in DOMAIN users :
        a # b =>
            /\ users[a].username # users[b].username
            /\ users[a].email # users[b].email
            /\ users[a].phone = NULL \/ users[a].phone # users[b].phone

\* ---- C16: registrations in flight together -------------------------------
\* the tables as they are made, before any account exists
InitFresh ==
    /\ posts = <<>>
    /\ nextPostId = 1
    /\ post_feedbacks = {}
    /\ nextFeedbackId = 1
    /\ post_sections = {}
    /\ nextSectionId = 1
    /\ resp = NoResponse
    /\ txn = Idle
    /\ last = NoRequest
    /\ users = <<>>
    /\ nextUserId = 1
    /\ tokens = [c \in UserIds |-> NoToken]
    /\ req = NoCall
    /\ reg = [r \in Regs |-> NoRegistration]
    /\ devices = <<>>
    /\ nextDeviceId = 1
    /\ resized = NoImage

\* create_user up to its last lookup: the three SELECTs of request r
BeginRegistration(r, username, email, phone) ==
    /\ reg[r].pc = "idle"
    /\ IF Conflict(username, email, Cleaned(phone))
       THEN /\ Refuse("create_user", 0, 0,
                      Wanted(username, email, phone, Unset), 400)
            /\ UNCHANGED reg
       ELSE /\ reg' = [reg EXCEPT ![r] = [pc |-> "checked",
                           username |-> username, email |-> email,
                           phone |-> phone]]
            /\ UNCHANGED <<users, nextUserId, req>>
    /\ UNCHANGED <<tokens, devices, nextDeviceId, contentvars>>

\* create_user from UserCRUD.create on: the INSERT of request r and its commit
CommitRegistration(r) ==
    /\ reg[r].pc = "checked"
    /\ UserCRUD_create("create_user", 0,
            Wanted(reg[r].username, reg[r].email, reg[r].phone, Unset),
            UserCreateOf(reg[r].username, reg[r].email, reg[r].phone))
    /\ reg' = [reg EXCEPT ![r] = NoRegistration]
    /\ UNCHANGED <<tokens, devices, nextDeviceId, contentvars>>

NextRace ==
    \/ \E r \in Regs, username \in Usernames, email \in Emails,
          phone \in PhoneInputs \cup {NULL} :
            BeginRegistration(r, username, email, phone)
    \/ \E r \in Regs : CommitRegistration(r)

SpecRace == InitFresh /\ [][NextRace]_vars

\* request r has passed its lookups with a phone that a row holds by now, and
\* its username and email are still free
PhoneTakenMeanwhile(r) ==
    /\ reg[r].pc = "checked"
    /\ reg[r].phone # NULL
    /\ \E u \in DOMAIN users : users[u].phone = validate_phone(reg[r].phone)
    /\ \A u \in DOMAIN users :
          /\ users[u].username # reg[r].username
          /\ users[u].email # reg[r].email

\* C16: two registrations in flight together can both pass the lookups, and
\* the INSERT of the later one is then not stopped by the phone the earlier
\* one stored: it is answered 201 and a second row with that phone exists
C16_PhoneRaceStores ==
    [][\A r \in Regs :
          (PhoneTakenMeanwhile(r) /\ reg'[r].pc = "idle") =>
              /\ req'.status = 201
              /\ req'.target \in DOMAIN users' \ DOMAIN users
              /\ users'[req'.target].phone = validate_phone(reg[r].phone)]_vars

\* two rows with the same phone are stored
C16_Witness ==
    \E a \in DOMAIN users, b \in DOMAIN users :
        a # b /\ users[a].phone # NULL /\ users[a].phone = users[b].phone

\* ---- sections: reorder and delete -----------------------------------------
get_section_by_id(section_id) == {s \in post_sections : s.id = section_id}

\* PostCRUD.update_section_order: new_order is a bare query parameter
UpdateSectionOrder(section_id, new_order) ==
    /\ IF get_section_by_id(section_id) # {}
       THEN /\ post_sections' =
                  {IF s.id = section_id THEN [s EXCEPT !.order_index = new_order]
                   ELSE s : s \in post_sections}
            /\ Done(Plain("update_section_order", 0, TRUE))
       ELSE /\ UNCHANGED post_sections
            /\ Done(Plain("update_section_order", 0, FALSE))
    /\ NoAccountCall
    /\ UNCHANGED <<posts, nextPostId, post_feedbacks, nextFeedbackId,
                   nextSectionId, resp, txn>>

\* PostCRUD.delete_section
DeleteSection(section_id) ==
    /\ IF get_section_by_id(section_id) # {}
       THEN /\ post_sections' = post_sections \ get_section_by_id(section_id)
            /\ Done(Plain("delete_section", 0, TRUE))
       ELSE /\ UNCHANGED post_sections
            /\ Done(Plain("delete_section", 0, FALSE))
    /\ NoAccountCall
    /\ UNCHANGED <<posts, nextPostId, post_feedbacks, nextFeedbackId,
                   nextSectionId, resp, txn>>

\* ---- devices: crud/device.py, api/devices.py --------------------------------
DeviceIds == 1..MaxDeviceId
DeviceNames == {"Scanner", "Probe"}
Versions == {"1.0", "v2.0"}
Descriptions == {"handheld"}

\* the names a form or a body carries: a name can come padded with blanks
RawDeviceNames == DeviceNames \cup {" Scanner "}

\* DeviceBase.validate_device_name, DeviceUpdate.validate_device_name:
\* return v.strip()
validate_device_name(v) ==
    CASE v = " Scanner " -> "Scanner"
      [] OTHER -> v

\* the readings of datetime.utcnow()
Times == {1, 2}

\* qr_code_data IS NULL: no QR image, no payload
NoQrCode == [type |-> NULL]

\* utils/qr_utils.py: the payload the QR image encodes
generate_device_qr_data(device_id, device_name, version, now) ==
    [device_id |-> device_id, device_name |-> device_name, version |-> version,
     type |-> "device", generated_at |-> now]

\* DeviceCRUD.generate_qr_code: the image of the row's payload
generate_qr_code(device_id, device, now) ==
    [device EXCEPT !.qr_code_data =
        generate_device_qr_data(device_id, device.device_name, device.version,
                                now)]

device_get_by_name(device_name) ==
    {d \in DOMAIN devices : devices[d].device_name = device_name}

\* the bodies of a device update
DeviceUpdates ==
    [device_name : RawDeviceNames \cup {Unset}, version : Versions \cup {Unset},
     description : Descriptions \cup {Unset},
     is_active : {"true", "false", Unset}]

NoDeviceFields ==
    [device_name |-> Unset, version |-> Unset, description |-> Unset,
     is_active |-> Unset]

\* a devices request leaves the users, the tokens and the content alone
DevicesOnly == UNCHANGED <<users, nextUserId, tokens, reg>> /\ NoContentCall

\* the request is answered without a write to devices
DeviceRefuse(op, c, device_id, status) ==
    /\ UNCHANGED <<devices, nextDeviceId>>
    /\ Answer(op, c, device_id, NoFields, status)

\* a change of one device row, or 404
DeviceWrite(op, c, device_id, row) ==
    IF device_id \notin DOMAIN devices
    THEN DeviceRefuse(op, c, device_id, 404)
    ELSE /\ devices' = [devices EXCEPT ![device_id] = row]
         /\ UNCHANGED nextDeviceId
         /\ Answer(op, c, device_id, NoFields, 200)

\* Device(device_name=..., version=..., description=..., is_active=True)
NewDevice(device_name, version, description) ==
    [device_name |-> device_name, version |-> version,
     description |-> description, image_data |-> NULL,
     image_filename |-> NULL, image_content_type |-> NULL,
     qr_code_data |-> NoQrCode, is_active |-> TRUE]

\* the INSERT of a device, then its QR code from the id the INSERT gave
InsertDevice(op, c, row, now) ==
    /\ nextDeviceId <= MaxDeviceId
    /\ devices' = (nextDeviceId :> generate_qr_code(nextDeviceId, row, now))
                  @@ devices
    /\ nextDeviceId' = nextDeviceId + 1
    /\ Answer(op, c, nextDeviceId, NoFields, 200)

\* POST /devices/ with a DeviceCreate body
create_device(c, device_name, version, description, now) ==
    /\ LET device_data == [device_name |-> validate_device_name(device_name),
                           version |-> version, description |-> description] IN
       IF get_current_admin_user(tokens[c]) # 200
       THEN DeviceRefuse("create_device", c, 0,
                         get_current_admin_user(tokens[c]))
       ELSE IF device_get_by_name(device_data.device_name) # {}
       THEN DeviceRefuse("create_device", c, 0, 400)
       ELSE InsertDevice("create_device", c,
                NewDevice(device_data.device_name, device_data.version,
                          device_data.description), now)
    /\ DevicesOnly

\* the three image columns after process_uploaded_image; image is the set of
\* files in the form's image part, at most one
WithImage(device, image) ==
    IF \E f \in image : ProcessOk(f)
    THEN LET f == CHOOSE f \in image : ProcessOk(f) IN
         [device EXCEPT !.image_data = "jpeg", !.image_filename = f.filename,
                        !.image_content_type = "image/jpeg"]
    ELSE device

\* POST /devices/with-image: the lookup takes the form's device_name, the row
\* the name DeviceCreate validated
create_device_with_image(c, device_name, version, description, image, now) ==
    /\ IF get_current_admin_user(tokens[c]) # 200
       THEN DeviceRefuse("create_device_with_image", c, 0,
                         get_current_admin_user(tokens[c]))
       ELSE IF device_get_by_name(device_name) # {}
       THEN DeviceRefuse("create_device_with_image", c, 0, 400)
       ELSE InsertDevice("create_device_with_image", c,
                WithImage(NewDevice(validate_device_name(device_name), version,
                                    description), image), now)
    /\ DevicesOnly

\* mutant: DeviceCRUD.update without the new QR code
UpdatedDeviceStaleQr(device_id, device, data, now) ==
    [device EXCEPT
       !.device_name = IF data.device_name = Unset THEN @
                       ELSE validate_device_name(data.device_name),
       !.version = IF data.version = Unset THEN @ ELSE data.version,
       !.description = IF data.description = Unset THEN @
                       ELSE data.description,
       !.is_active = IF data.is_active = Unset THEN @
                     ELSE data.is_active = "true"]

\* DeviceCRUD.update: the fields of the body, then a new QR code when the
\* name or the version is among them
UpdatedDevice(device_id, device, data, now) ==
    LET row == [device EXCEPT
                  !.device_name = IF data.device_name = Unset THEN @
                                  ELSE validate_device_name(data.device_name),
                  !.version = IF data.version = Unset THEN @ ELSE data.version,
                  !.description = IF data.description = Unset THEN @
                                  ELSE data.description,
                  !.is_active = IF data.is_active = Unset THEN @
                                ELSE data.is_active = "true"] IN
    IF data.device_name # Unset \/ data.version # Unset
    THEN generate_qr_code(device_id, row, now) ELSE row

\* PUT /devices/{device_id}
update_device(c, device_id, data, now) ==
    /\ IF get_current_admin_user(tokens[c]) # 200
       THEN DeviceRefuse("update_device", c, device_id,
                         get_current_admin_user(tokens[c]))
       ELSE IF /\ data.device_name # Unset
               /\ \E d \in device_get_by_name(
                               validate_device_name(data.device_name)) :
                      d # device_id
       THEN DeviceRefuse("update_device", c, device_id, 400)
       ELSE DeviceWrite("update_device", c, device_id,
                IF device_id \in DOMAIN devices
                THEN UpdatedDevice(device_id, devices[device_id], data, now)
                ELSE NULL)
    /\ DevicesOnly

\* the device endpoints that take only the id
DeviceOp(op, c, device_id, row) ==
    /\ IF get_current_admin_user(tokens[c]) # 200
       THEN DeviceRefuse(op, c, device_id, get_current_admin_user(tokens[c]))
       ELSE DeviceWrite(op, c, device_id, row)
    /\ DevicesOnly

\* PUT /devices/{device_id}/image: DeviceCRUD.update_device_image returns None
\* for a missing device and for an image that cannot be processed
update_device_image(c, device_id, image) ==
    /\ IF get_current_admin_user(tokens[c]) # 200
       THEN DeviceRefuse("update_device_image", c, device_id,
                         get_current_admin_user(tokens[c]))
       ELSE IF device_id \notin DOMAIN devices \/ ~ProcessOk(image)
       THEN DeviceRefuse("update_device_image", c, device_id, 404)
       ELSE DeviceWrite("update_device_image", c, device_id,
                        WithImage(devices[device_id], {image}))
    /\ DevicesOnly

\* mutant: the image is removed together with the QR code
WithoutImageAndQr(device) ==
    [device EXCEPT !.image_data = NULL, !.image_filename = NULL,
                   !.image_content_type = NULL, !.qr_code_data = NoQrCode]

\* DeviceCRUD.remove_device_image: the three image columns set to None
WithoutImage(device) ==
    [device EXCEPT !.image_data = NULL, !.image_filename = NULL,
                   !.image_content_type = NULL]

\* DELETE /devices/{device_id}/image
remove_device_image(c, device_id) ==
    DeviceOp("remove_device_image", c, device_id,
             IF device_id \in DOMAIN devices
             THEN WithoutImage(devices[device_id]) ELSE NULL)

\* POST /devices/{device_id}/regenerate-qr
regenerate_qr_code(c, device_id, now) ==
    DeviceOp("regenerate_qr_code", c, device_id,
             IF device_id \in DOMAIN devices
             THEN generate_qr_code(device_id, devices[device_id], now)
             ELSE NULL)

\* POST /devices/{device_id}/activate
activate_device(c, device_id) ==
    DeviceOp("activate_device", c, device_id,
             IF device_id \in DOMAIN devices
             THEN [devices[device_id] EXCEPT !.is_active = TRUE] ELSE NULL)

\* DELETE /devices/{device_id}: the soft delete
deactivate_device(c, device_id) ==
    DeviceOp("deactivate_device", c, device_id,
             IF device_id \in DOMAIN devices
             THEN [devices[device_id] EXCEPT !.is_active = FALSE] ELSE NULL)

\* DELETE /devices/{device_id}/hard-delete
hard_delete_device(c, device_id) ==
    /\ IF get_current_admin_user(tokens[c]) # 200
       THEN DeviceRefuse("hard_delete_device", c, device_id,
                         get_current_admin_user(tokens[c]))
       ELSE IF device_id \notin DOMAIN devices
       THEN DeviceRefuse("hard_delete_device", c, device_id, 404)
       ELSE /\ devices' = [d \in DOMAIN devices \ {device_id} |-> devices[d]]
            /\ UNCHANGED nextDeviceId
            /\ Answer("hard_delete_device", c, device_id, NoFields, 200)
    /\ DevicesOnly

\* ---- C17: the admin-only endpoints ------------------------------------------
\* Depends(get_current_admin_user) raised: the handler never ran
Rejected(op, c) ==
    /\ req' = [NoCall EXCEPT !.op = op, !.caller = c,
                             !.status = get_current_admin_user(tokens[c])]
    /\ UNCHANGED <<users, nextUserId, tokens, reg, devices, nextDeviceId>>
    /\ NoContentCall

\* an endpoint of api/posts.py with current_admin = Depends(get_current_admin_user)
AdminOnly(op, c, Handler) ==
    IF get_current_admin_user(tokens[c]) = 200 THEN Handler ELSE Rejected(op, c)

create_post(c) == AdminOnly("create_post", c, CreatePostUpTo(1))

update_post(c, p, active) == AdminOnly("update_post", c, UpdatePost(p, active))

delete_post(c, p) == AdminOnly("delete_post", c, DeletePost(p))

add_text_section(c, p, order_index, text_content) ==
    AdminOnly("add_text_section", c, AddTextSection(p, order_index, text_content))

add_image_section(c, p, order_index, image) ==
    AdminOnly("add_image_section", c, AddImageSection(p, order_index, image))

add_video_section(c, p, order_index, video_url) ==
    AdminOnly("add_video_section", c, AddVideoSection(p, order_index, video_url))

update_section_order(c, section_id, new_order) ==
    AdminOnly("update_section_order", c,
              UpdateSectionOrder(section_id, new_order))

delete_section(c, section_id) ==
    AdminOnly("delete_section", c, DeleteSection(section_id))

create_complete_post(c, form, manifest, images) ==
    AdminOnly("create_complete_post", c,
              CreateCompletePost(form, manifest, images))

\* the requests to admin-only endpoints that caller c makes
AdminOnlyRequest(c) ==
    \/ create_post(c)
    \/ update_post(c, 1, "false")
    \/ delete_post(c, 1)
    \/ add_text_section(c, 1, 0, " hello ")
    \/ add_image_section(c, 1, 0, UploadB)
    \/ add_video_section(c, 1, 0, LongUrl)
    \/ update_section_order(c, 1, 1)
    \/ delete_section(c, 1)
    \/ create_complete_post(c, "bad_json", <<>>, {})
    \/ create_device(c, "Scanner", "1.0", NULL, 1)
    \/ update_device(c, 1, [NoDeviceFields EXCEPT !.version = "v2.0"], 1)
    \/ regenerate_qr_code(c, 1, 2)
    \/ activate_device(c, 1)
    \/ deactivate_device(c, 1)
    \/ hard_delete_device(c, 1)
    \/ admin_create_user(c, "testuser", "testuser@example.com", NULL, "USER",
                         TRUE)
    \/ admin_update_user(c, 1, [NoFields EXCEPT !.is_active = "true"])
    \/ make_user_admin(c, 1)
    \/ remove_user_admin(c, 1)
    \/ activate_user(c, 1)
    \/ deactivate_user(c, 2)
    \/ delete_user(c, 2)

NextAdmin ==
    \/ \E c \in UserIds : AdminOnlyRequest(c)
    \/ \E c \in UserIds : login(c, c, TRUE)

SpecAdmin == Init /\ [][NextAdmin]_vars

\* the rows of every table, and the ids given out
Store ==
    <<posts, nextPostId, post_feedbacks, nextFeedbackId, post_sections,
      nextSectionId, users, nextUserId, devices, nextDeviceId>>

\* the claims of the token verify, is_active is true and user_type is ADMIN
AdminToken(token) ==
    token.valid /\ token.is_active /\ token.user_type = "ADMIN"

\* C17: a request to an admin-only endpoint (posts, sections, devices, admin
\* user management, delete user by id) changes the store only when the token
\* presented verifies, its is_active claim is true and its user_type claim is
\* ADMIN; otherwise it is rejected and the store is unchanged. For each
\* caller c: c holds such a token, or the step is a refusal of c that leaves
\* the store as it is, or the step is no admin-only request of c
C17_AdminOnlyWrites ==
    [][\A c \in UserIds :
          \/ AdminToken(tokens[c])
          \/ /\ UNCHANGED Store
             /\ req'.caller = c
             /\ req'.status \in {400, 401, 403}
          \/ ~AdminOnlyRequest(c)]_vars

\* a USER asked for the delete of a post that exists, was answered 403, and
\* the post is still there
C17_Witness ==
    /\ req.op = "delete_post" /\ req.status = 403
    /\ tokens[req.caller].valid /\ tokens[req.caller].user_type = "USER"
    /\ 1 \in DOMAIN posts

\* ---- C18: the status of a refusal --------------------------------------------
\* the endpoints behind get_current_admin_user
AdminGated ==
    {"admin_create_user", "admin_update_user", "make_user_admin",
     "remove_user_admin", "activate_user", "deactivate_user", "delete_user"}

\* the endpoints behind get_current_active_user
ActiveGated == {"update_my_profile", "delete_my_account", "update_user"}

\* C18: a request whose token does not verify is answered 401; one whose token
\* verifies but fails the active check, or the ADMIN check of an admin-only
\* endpoint, is answered 403
C18_AsStated ==
    [][(req'.op \in AdminGated \cup ActiveGated) =>
          /\ ~CallerToken.valid => req'.status = 401
          /\ (CallerToken.valid /\ ~CallerToken.is_active) => req'.status = 403
          /\ (/\ CallerToken.valid /\ CallerToken.is_active
              /\ CallerToken.user_type # "ADMIN"
              /\ req'.op \in AdminGated) => req'.status = 403]_vars

\* ---- C19: tokens and the rows they were made from ---------------------------
NextTokens ==
    \/ create_user("testuser", "testuser@example.com", NULL)
    \/ \E c \in UserIds : login(c, c, TRUE)
    \/ \E c \in UserIds : refresh_token(c)
    \/ \E c \in UserIds : Expire(c)
    \/ \E c \in UserIds :
          update_my_profile(c, [NoFields EXCEPT !.username = "guest"])
    \/ \E c \in UserIds, u \in UserIds : make_user_admin(c, u)
    \/ \E c \in UserIds, u \in UserIds : remove_user_admin(c, u)
    \/ \E c \in UserIds, u \in UserIds : activate_user(c, u)
    \/ \E c \in UserIds, u \in UserIds : deactivate_user(c, u)

SpecTokens == Init /\ [][NextTokens]_vars

\* C19: an admin-only request is let through or refused by the claims of its
\* token alone, and no request but login, refresh and the expiry changes a
\* token: the older token of a demoted or deactivated user passes as before.
\* The token a refresh issues carries the user_type and is_active the row has
\* at that moment
C19_TokenDecides ==
    [][/\ req'.op \notin {"login", "refresh_token", "expire"} => tokens' = tokens
       /\ req'.op \in AdminGated =>
             IF AdminToken(CallerToken)
             THEN req'.status \notin {401, 403}
             ELSE req'.status \in {400, 401, 403} /\ users' = users
       /\ (req'.op = "refresh_token" /\ req'.status = 200) =>
             /\ req'.target \in DOMAIN users
             /\ tokens'[req'.caller].valid
             /\ tokens'[req'.caller].user_id = req'.target
             /\ tokens'[req'.caller].user_type = users[req'.target].user_type
             /\ tokens'[req'.caller].is_active = users[req'.target].is_active
      ]_vars

\* a user whose row says USER by now activated another user with the ADMIN
\* token from before the demotion
C19_Witness ==
    /\ req.op = "activate_user" /\ req.status = 200
    /\ AdminToken(tokens[req.caller])
    /\ tokens[req.caller].user_id \in DOMAIN users
    /\ users[tokens[req.caller].user_id].user_type = "USER"
    /\ req.target # tokens[req.caller].user_id

\* ---- C20: GET /users/ ---------------------------------------------------------
\* query(User).offset(skip).limit(limit).all() over rows: no ORDER BY, so any
\* limit of the rows that are left after skip of them
Pages(rows, skip, limit) ==
    {page \in SUBSET rows :
        Cardinality(page) =
            IF Cardinality(rows) - skip < 0 THEN 0
            ELSE IF Cardinality(rows) - skip < limit
                 THEN Cardinality(rows) - skip ELSE limit}

\* UserCRUD.get_all
get_all(skip, limit) == Pages(DOMAIN users, skip, limit)

\* UserCRUD.get_active_users
get_active_users(skip, limit) ==
    Pages({u \in DOMAIN users : users[u].is_active}, skip, limit)

\* the entry of the answer for row u
UserDict(u) ==
    [id |-> u, username |-> users[u].username,
     user_type |-> users[u].user_type, is_active |-> users[u].is_active]

\* the answer of GET /users/
Listing(c, active_only, status, page) ==
    /\ req' = [NoCall EXCEPT !.op = "get_users", !.caller = c,
                             !.status = status,
                             !.active_only = IF active_only THEN "true"
                                             ELSE "false",
                             !.listed = {UserDict(u) : u \in page}]
    /\ UNCHANGED tokens
    /\ ReadOnly

\* mutant: active_only false is honoured for every role
get_users_any_role(c, skip, limit, active_only) ==
    IF get_current_active_user(tokens[c]) # 200
    THEN Listing(c, active_only, get_current_active_user(tokens[c]), {})
    ELSE \E page \in (IF ~active_only
                      THEN get_all(skip, limit)
                      ELSE get_active_users(skip, limit)) :
            Listing(c, active_only, 200, page)

get_users(c, skip, limit, active_only) ==
    IF get_current_active_user(tokens[c]) # 200
    THEN Listing(c, active_only, get_current_active_user(tokens[c]), {})
    ELSE \E page \in (IF tokens[c].user_type = "ADMIN" /\ ~active_only
                      THEN get_all(skip, limit)
                      ELSE get_active_users(skip, limit)) :
            Listing(c, active_only, 200, page)

NextListing ==
    \/ create_user("testuser", "testuser@example.com", NULL)
    \/ \E c \in UserIds : login(c, c, TRUE)
    \/ \E c \in UserIds, u \in UserIds : make_user_admin(c, u)
    \/ \E c \in UserIds, u \in UserIds : remove_user_admin(c, u)
    \/ \E c \in UserIds, u \in UserIds : activate_user(c, u)
    \/ \E c \in UserIds, u \in UserIds : deactivate_user(c, u)
    \/ \E c \in UserIds, skip \in {0, 1}, limit \in {1, 2},
          active_only \in BOOLEAN : get_users(c, skip, limit, active_only)

SpecListing == Init /\ [][NextListing]_vars

\* C20: GET /users/ returns an inactive user only to a caller whose token role
\* is ADMIN and who asked with active_only false; every user returned to
\* another caller is active
C20_InactiveOnlyForAdmin ==
    (req.op = "get_users") =>
        \A x \in req.listed :
            ~x.is_active =>
                /\ tokens[req.caller].user_type = "ADMIN"
                /\ req.active_only = "false"

\* a caller with a USER token asked with active_only false while an inactive
\* row exists, and got users back, all of them active
C20_Witness ==
    /\ req.op = "get_users" /\ req.status = 200
    /\ req.active_only = "false"
    /\ tokens[req.caller].user_type = "USER"
    /\ \E u \in DOMAIN users : ~users[u].is_active
    /\ req.listed # {}
    /\ \A x \in req.listed : x.is_active

\* ---- C21: what a registration can create -----------------------------------
\* requests that anyone can make, from the empty table on: registrations,
\* logins, and the role endpoints with whatever token a login gave
NextPublic ==
    \/ \E username \in Usernames, email \in Emails,
          phone \in PhoneInputs \cup {NULL} :
            create_user(username, email, phone)
    \/ \E username \in Usernames, email \in Emails, user_type \in UserType :
          create_user_with_role(username, email, NULL, user_type)
    \/ \E c \in UserIds, u \in UserIds, ok \in BOOLEAN : login(c, u, ok)
    \/ \E c \in UserIds :
          update_my_profile(c, [NoFields EXCEPT !.user_type = "ADMIN"])
    \/ \E c \in UserIds, u \in UserIds : make_user_admin(c, u)
    \/ \E c \in UserIds, username \in Usernames, email \in Emails :
          admin_create_user(c, username, email, NULL, "ADMIN", TRUE)

SpecPublic == InitFresh /\ [][NextPublic]_vars

\* C21: a public registration that creates a row creates it with role USER
\* and is_active true, and starting from no account nothing that can be
\* requested without an admin's token stores a row with role ADMIN
C21_RegistrationIsUser ==
    /\ [](\A u \in DOMAIN users : users[u].user_type = "USER")
    /\ [][(req'.op = "create_user" /\ req'.status = 201) =>
             /\ DOMAIN users' = DOMAIN users \cup {req'.target}
             /\ req'.target \notin DOMAIN users
             /\ users'[req'.target].user_type = "USER"
             /\ users'[req'.target].is_active]_vars

\* a second account was registered while the first was logged in, and both
\* are plain users
C21_Witness ==
    /\ req.op = "create_user" /\ req.status = 201
    /\ Cardinality(DOMAIN users) = 2
    /\ \E c \in UserIds : tokens[c].valid
    /\ \A u \in DOMAIN users : users[u].user_type = "USER" /\ users[u].is_active

\* ---- the device registry --------------------------------------------------
\* the bodies of PUT /devices/{device_id} the admin sends
DeviceBodies ==
    {[NoDeviceFields EXCEPT !.device_name = "Probe"],
     [NoDeviceFields EXCEPT !.device_name = " Scanner "],
     [NoDeviceFields EXCEPT !.version = "v2.0"],
     [NoDeviceFields EXCEPT !.device_name = "Probe", !.version = "v2.0"],
     [NoDeviceFields EXCEPT !.description = "handheld"],
     [NoDeviceFields EXCEPT !.is_active = "false"],
     [NoDeviceFields EXCEPT !.is_active = "true"],
     NoDeviceFields}

\* the bodies that carry neither device_name nor version
QrNeutralBodies ==
    {data \in DeviceBodies : data.device_name = Unset /\ data.version = Unset}

\* the requests to api/devices.py that caller c makes
DeviceRequest(c) ==
    \/ \E device_name \in RawDeviceNames :
          create_device(c, device_name, "1.0", NULL, 1)
    \/ \E device_name \in RawDeviceNames, image \in {{}, {UploadA}, {UploadB}} :
          create_device_with_image(c, device_name, "1.0", "handheld", image, 1)
    \/ \E d \in DeviceIds, data \in DeviceBodies, now \in Times :
          update_device(c, d, data, now)
    \/ \E d \in DeviceIds, image \in {UploadA, UploadB} :
          update_device_image(c, d, image)
    \/ \E d \in DeviceIds : remove_device_image(c, d)
    \/ \E d \in DeviceIds : regenerate_qr_code(c, d, 2)
    \/ \E d \in DeviceIds : activate_device(c, d)
    \/ \E d \in DeviceIds : deactivate_device(c, d)
    \/ \E d \in DeviceIds : hard_delete_device(c, d)

NextDevices ==
    \/ DeviceRequest(1)
    \/ \E ok \in BOOLEAN : login(1, 1, ok)

SpecDevices == Init /\ [][NextDevices]_vars

\* C22: every stored device has a QR code, and its payload carries the
\* device's own id, its current device_name and its current version, after
\* creation as after every update of the name or the version
C22_QrCarriesIdentity ==
    \A d \in DOMAIN devices :
        /\ devices[d].qr_code_data # NoQrCode
        /\ devices[d].qr_code_data.device_id = d
        /\ devices[d].qr_code_data.device_name = devices[d].device_name
        /\ devices[d].qr_code_data.version = devices[d].version

\* an update has renamed a device and changed its version, and the QR code
\* of the row carries both new values
C22_Witness ==
    /\ req.op = "update_device" /\ req.status = 200
    /\ req.target \in DOMAIN devices
    /\ devices[req.target].device_name = "Probe"
    /\ devices[req.target].version = "v2.0"
    /\ devices[req.target].qr_code_data.device_name = "Probe"
    /\ devices[req.target].qr_code_data.version = "v2.0"
    /\ devices[req.target].qr_code_data.generated_at = 2

\* C23: an update that carries neither device_name nor version, an image
\* replacement, an image removal, a soft delete and an activation leave the
\* QR code of every device as it was
C23_QrLeftAlone ==
    [][(\/ req'.op \in {"update_device_image", "remove_device_image",
                        "deactivate_device", "activate_device"}
        \/ \E d \in DeviceIds, data \in QrNeutralBodies, now \in Times :
              update_device(1, d, data, now))
       => \A d \in DOMAIN devices :
              /\ d \in DOMAIN devices'
              /\ devices'[d].qr_code_data = devices[d].qr_code_data]_vars

\* the image of a device whose QR code was regenerated has been removed, and
\* the regenerated QR code is still there
C23_Witness ==
    /\ req.op = "remove_device_image" /\ req.status = 200
    /\ req.target \in DOMAIN devices
    /\ devices[req.target].image_data = NULL
    /\ devices[req.target].description = "handheld"
    /\ ~devices[req.target].is_active
    /\ devices[req.target].qr_code_data # NoQrCode
    /\ devices[req.target].qr_code_data.generated_at = 2

\* C24: a device is created active, becomes inactive only through the
\* soft delete, which keeps the row, becomes active again only through
\* activate, and leaves the table only through the hard delete
C24_AsStated ==
    [][/\ \A d \in DOMAIN devices' \ DOMAIN devices : devices'[d].is_active
       /\ \A d \in DOMAIN devices \ DOMAIN devices' :
              req'.op = "hard_delete_device"
       /\ \A d \in DOMAIN devices \cap DOMAIN devices' :
              /\ (devices[d].is_active /\ ~devices'[d].is_active)
                     => req'.op = "deactivate_device"
              /\ (~devices[d].is_active /\ devices'[d].is_active)
                     => req'.op = "activate_device"
              /\ req'.op = "deactivate_device" /\ req'.status = 200
                     /\ req'.target = d => ~devices'[d].is_active
              /\ req'.op = "activate_device" /\ req'.status = 200
                     /\ req'.target = d => devices'[d].is_active]_vars

\* C25: no two stored devices have the same device_name, and a create or a
\* rename to a name that another device holds is answered 400 and changes
\* no device
C25_AsStated ==
    /\ [](\A d1, d2 \in DOMAIN devices :
              d1 # d2 => devices[d1].device_name # devices[d2].device_name)
    /\ [][req'.op \in {"create_device", "create_device_with_image",
                       "update_device"} /\ req'.status = 400
              => UNCHANGED <<devices, nextDeviceId>>]_vars

\* ---- utils/image_utils.py: resize_image_if_needed ---------------------------
MAX_IMAGE_WIDTH == 1200
MAX_IMAGE_HEIGHT == 800

\* the widths and heights of the decodable images that are uploaded
Widths == {1, 2, 3, 600, 1200, 1201, 1800, 2400, 3600, 4800}
Heights == {1, 2, 400, 800, 801, 1078, 1600, 2400, 3200, 5000}

\* ratio = min(MAX_IMAGE_WIDTH / width, MAX_IMAGE_HEIGHT / height), as the
\* fraction <<numerator, denominator>>
Ratio(width, height) ==
    IF MAX_IMAGE_WIDTH * height <= MAX_IMAGE_HEIGHT * width
    THEN <<MAX_IMAGE_WIDTH, width>>
    ELSE <<MAX_IMAGE_HEIGHT, height>>

\* a quotient that a float holds exactly: a whole multiple of a power of two
Exact(ratio) == \E k \in 0..12 : (ratio[1] * 2^k) % ratio[2] = 0

\* int(size * ratio): the product truncated.  ratio is a float: when it is
\* a rounded quotient, a product that is the whole number n can come out just
\* below n and truncate to n - 1
Truncated(size, ratio) ==
    LET product == size * ratio[1]
        n == product \div ratio[2] IN
    IF product % ratio[2] = 0 /\ ~Exact(ratio) THEN {n, n - 1} ELSE {n}

\* img.save(output, format='JPEG', optimize=True, quality=85)
Saved(width, height, size) ==
    [width |-> width, height |-> height, status |-> 200, size |-> size,
     format |-> "JPEG"]

\* the except branch: HTTPException(status_code=400)
Failed(width, height) ==
    [width |-> width, height |-> height, status |-> 400, size |-> <<0, 0>>,
     format |-> NULL]

\* resize_image_if_needed on an image of width x height: the results it can
\* give.  Image.resize raises for a size with a 0 in it
resize_image_if_needed(width, height) ==
    IF width <= MAX_IMAGE_WIDTH /\ height <= MAX_IMAGE_HEIGHT
    THEN {Saved(width, height, <<width, height>>)}
    ELSE LET ratio == Ratio(width, height) IN
         {IF new_size[1] < 1 \/ new_size[2] < 1
          THEN Failed(width, height)
          ELSE Saved(width, height, new_size) :
             new_size \in Truncated(width, ratio) \X Truncated(height, ratio)}

\* an upload reaches resize_image_if_needed
ResizeImage(width, height) ==
    /\ resized' \in resize_image_if_needed(width, height)
    /\ UNCHANGED <<users, nextUserId, tokens, req, reg, devices, nextDeviceId,
                   tablevars>>

NextResize == \E width \in Widths, height \in Heights : ResizeImage(width, height)

SpecResize == Init /\ [][NextResize]_vars

\* C26: an image of width w >= 1 and height h >= 1 with w > 1200 or h > 800
\* comes out with 1 <= width <= 1200 and 1 <= height <= 800, each the
\* truncated product of the input dimension and min(1200/w, 800/h); an image
\* within 1200x800 keeps its dimensions and is encoded again
C26_AsStated ==
    resized # NoImage =>
        /\ resized.status = 200
        /\ resized.format = "JPEG"
        /\ IF /\ resized.width <= MAX_IMAGE_WIDTH
              /\ resized.height <= MAX_IMAGE_HEIGHT
           THEN resized.size = <<resized.width, resized.height>>
           ELSE LET ratio == Ratio(resized.width, resized.height) IN
                /\ resized.size[1] >= 1 /\ resized.size[1] <= MAX_IMAGE_WIDTH
                /\ resized.size[2] >= 1 /\ resized.size[2] <= MAX_IMAGE_HEIGHT
                /\ resized.size[1] \in Truncated(resized.width, ratio)
                /\ resized.size[2] \in Truncated(resized.height, ratio)

\* ---- feedback of two users, one request at a time ---------------------------
\* current_user.get("user_id") of the two users who give feedback
FeedbackUsers == {1, 2}

NextFeedback ==
    \/ CreatePost
    \/ \E p \in PostIds, a \in {"true", "false"} : UpdatePost(p, a)
    \/ \E p \in PostIds : DeletePost(p)
    \/ \E p \in PostIds, u \in FeedbackUsers, t \in FeedbackType : AddFeedback(p, u, t)
    \/ \E p \in PostIds, u \in FeedbackUsers : RemoveFeedback(p, u)

SpecFeedback == Init /\ [][NextFeedback]_vars

\* the stored feedback rows of post p that have type t
RowsOfType(p, t) ==
    {f \in post_feedbacks : f.post_id = p /\ f.feedback_type = t}

\* C27: after any sequence of add_feedback, remove_feedback and post delete
\* requests, positive_feedbacks of every post is the number of its stored
\* positive feedback rows and negative_feedbacks the number of its negative
\* ones
C27_CountersMatchRows ==
    \A p \in DOMAIN posts :
        /\ posts[p].positive_feedbacks = Cardinality(RowsOfType(p, "positive"))
        /\ posts[p].negative_feedbacks = Cardinality(RowsOfType(p, "negative"))

\* a user has changed their feedback on a post that holds one feedback of
\* each type from two users
C27_Witness ==
    /\ last.op = "add_feedback" /\ last.ok
    /\ last.existing \in FeedbackType /\ last.existing # last.feedback_type
    /\ Cardinality(RowsOfType(last.post_id, "positive")) = 1
    /\ Cardinality(RowsOfType(last.post_id, "negative")) = 1
    /\ posts[last.post_id].positive_feedbacks = 1
    /\ posts[last.post_id].negative_feedbacks = 1

\* C28: a feedback request on a post that does not exist or is not active is
\* answered with the error payload, and no feedback row and no counter changes
C28_NoFeedbackOnInactive ==
    [][(/\ last'.op = "add_feedback"
        /\ \/ last'.post_id \notin DOMAIN posts
           \/ ~posts[last'.post_id].is_active)
       => /\ ~last'.ok
          /\ UNCHANGED <<posts, post_feedbacks, nextFeedbackId>>]_vars

\* the request was refused on a stored, inactive post that has a feedback row
C28_Witness ==
    /\ last.op = "add_feedback" /\ ~last.ok
    /\ last.post_id \in DOMAIN posts
    /\ ~posts[last.post_id].is_active
    /\ RowsOfType(last.post_id, "positive") # {}
    /\ last.feedback_type = "negative"

\* ---- the sections of the posts ----------------------------------------------
\* the video_url a VideoSectionCreate body carries; the field is optional
VideoUrls == {"http://v", NULL}

NextSections ==
    \/ CreatePostUpTo(1)
    \/ \E o \in OrderIndexes : AddTextSection(1, o, " hello ")
    \/ \E o \in OrderIndexes, image \in {UploadA, UploadB} :
          AddImageSection(1, o, image)
    \/ \E o \in OrderIndexes, video_url \in VideoUrls :
          AddVideoSection(1, o, video_url)
    \/ \E e \in Entries : CreateCompletePost("ok", <<e>>, {UploadA})
    \/ \E section_id \in 1..MaxSectionId, new_order \in OrderIndexes :
          UpdateSectionOrder(section_id, new_order)
    \/ \E section_id \in 1..MaxSectionId : DeleteSection(section_id)

SpecSections == Init /\ [][NextSections]_vars

\* C29: every stored section has order_index >= 0, whichever of the text,
\* image and video section requests, complete-post requests and reorder
\* requests produced it
C29_AsStated == \A s \in post_sections : s.order_index >= 0

\* C30: a stored section has exactly the payload fields of its type
\* populated and all others null: text_content for text; image_data,
\* image_filename and image_content_type for image; video_url for video
C30_AsStated ==
    \A s \in post_sections :
        /\ (s.text_content # NULL) <=> (s.section_type = "text")
        /\ (s.image_data # NULL) <=> (s.section_type = "image")
        /\ (s.image_filename # NULL) <=> (s.section_type = "image")
        /\ (s.image_content_type # NULL) <=> (s.section_type = "image")
        /\ (s.video_url # NULL) <=> (s.section_type = "video")
        /\ s.video_filename = NULL

=============================================================================
